---------------------------- MODULE Spec2Model ----------------------------
(***************************************************************************)
(* Handwritten-notes structural extraction and graph canonicalization:     *)
(* DiagramDetector -> RegionConsolidator -> DiagramProcessor ->            *)
(* GraphRefiner -> SchemaGenerator (src/handwritten_notes_processor).      *)
(*                                                                         *)
(* Text is modelled as a sequence of one-character strings so that         *)
(* lower(), split(), strip(), substring tests, the normalisation regexes   *)
(* and the slug are computed character by character.  Bounding boxes are   *)
(* 4-tuples <<x1, y1, x2, y2>> of integers; comparisons against the        *)
(* float factors 0.9, 1.5, 0.5, 1.8 are made exact by cross-multiplying.  *)
(***************************************************************************)
EXTENDS Integers, Sequences, FiniteSets, TLC

VARIABLES
    pc,                 \* position of the run in the stage order
    image_area,         \* detector: image.shape[0] * image.shape[1]
    contours,           \* detector: what cv2.findContours returned
    regions,            \* detector: what detect_regions returned
    diagram_regions,    \* consolidator input: the detector's regions
    text_regions,       \* consolidator input: the OCR lines
    consolidated,       \* consolidator output: consolidated_regions
    final_text_regions, \* final_output["text_regions"]
    graphs,             \* final_output["graphs"] before refinement
    merge_mode,         \* refine()'s merge_mode argument
    refined_graphs,     \* what refine() returned
    refine_log,         \* per merged graph: the id maps of stages 2 and 3
    canonical_graph,    \* the argument given to SchemaGenerator.generate
    knowledge_output,   \* what SchemaGenerator.generate returned
    input_nodes,        \* node list a single refiner stage is called with
    nodes,              \* the node list that stage returned last
    id_map,             \* the id map that stage returned last
    prev_nodes,         \* the node list that stage was last applied to
    run,                \* which execution of the pipeline this is (1 or 2)
    first_output        \* what the first execution produced

vars == <<pc, image_area, contours, regions, diagram_regions, text_regions,
          consolidated, final_text_regions, graphs, merge_mode, refined_graphs, refine_log,
          canonical_graph, knowledge_output, input_nodes, nodes, id_map,
          prev_nodes, run, first_output>>

None == "None"

\* ------------------------------------------------------------------ text

Digits == {"0", "1", "2", "3", "4", "5", "6", "7", "8", "9"}

UpperSeq == <<"A","B","C","D","E","F","G","H","I","J","K","L","M",
              "N","O","P","Q","R","S","T","U","V","W","X","Y","Z">>

LowerSeq == <<"a","b","c","d","e","f","g","h","i","j","k","l","m",
              "n","o","p","q","r","s","t","u","v","w","x","y","z">>

UpperLetters == {UpperSeq[i] : i \in 1..26}

LowerLetters == {LowerSeq[i] : i \in 1..26}

\* str.lower() on one character
LowerChar(c) ==
    IF c \in UpperLetters
    THEN LowerSeq[CHOOSE i \in 1..26 : UpperSeq[i] = c]
    ELSE c

\* str.lower()
RECURSIVE Lower(_)
Lower(s) ==
    IF s = <<>> THEN <<>> ELSE <<LowerChar(Head(s))>> \o Lower(Tail(s))

\* \s of the regexes and the whitespace of strip() / split()
IsSpace(c) == c = " "

\* \w of the regexes (the two sides of \b)
IsWordChar(c) == c \in UpperLetters \cup LowerLetters \cup Digits \cup {"_"}

Min2(a, b) == IF a < b THEN a ELSE b

Max2(a, b) == IF a > b THEN a ELSE b

Abs(a) == IF a < 0 THEN -a ELSE a

\* s[from:] with a 1-based first index
Drop(s, k) == SubSeq(s, k + 1, Len(s))

Take(s, k) == SubSeq(s, 1, Min2(k, Len(s)))

\* s without its longest prefix of characters of the class chars
RECURSIVE LStripIn(_, _)
LStripIn(s, chars) ==
    IF s # <<>> /\ Head(s) \in chars THEN LStripIn(Tail(s), chars) ELSE s

\* s without its longest suffix of characters of the class chars
RECURSIVE RStripIn(_, _)
RStripIn(s, chars) ==
    IF s # <<>> /\ s[Len(s)] \in chars
    THEN RStripIn(SubSeq(s, 1, Len(s) - 1), chars)
    ELSE s

\* str.strip()
Strip(s) == RStripIn(LStripIn(s, {" "}), {" "})

\* sub in s   (Python substring test, also re.search of a literal)
StartsAt(s, sub, k) ==
    /\ k + Len(sub) - 1 <= Len(s)
    /\ \A i \in 1..Len(sub) : s[k + i - 1] = sub[i]

Contains(s, sub) == \E k \in 1..(Len(s) + 1) : StartsAt(s, sub, k)

\* str.split(): the maximal runs of non-whitespace
RECURSIVE SplitFrom(_, _, _)
SplitFrom(s, k, word) ==
    IF k > Len(s)
    THEN IF word = <<>> THEN <<>> ELSE <<word>>
    ELSE IF IsSpace(s[k])
         THEN IF word = <<>>
              THEN SplitFrom(s, k + 1, <<>>)
              ELSE <<word>> \o SplitFrom(s, k + 1, <<>>)
         ELSE SplitFrom(s, k + 1, Append(word, s[k]))

Split(s) == SplitFrom(s, 1, <<>>)

\* " ".join(parts)
RECURSIVE JoinSpace(_)
JoinSpace(parts) ==
    IF parts = <<>> THEN <<>>
    ELSE IF Len(parts) = 1 THEN parts[1]
    ELSE parts[1] \o <<" ">> \o JoinSpace(Tail(parts))

\* a dict, as a function on its keys
EmptyMap == [k \in {} |-> None]

\* d[k] = v
MapPut(d, k, v) == [x \in (DOMAIN d) \cup {k} |-> IF x = k THEN v ELSE d[x]]

\* d.get(k, default)
MapGet(d, k, default) == IF k \in DOMAIN d THEN d[k] ELSE default

\* ------------------------------------------------------------ geometry

\* the intersection of two bboxes: max of mins, min of maxes
IntersectionBox(b1, b2) ==
    << Max2(b1[1], b2[1]), Max2(b1[2], b2[2]), Min2(b1[3], b2[3]), Min2(b1[4], b2[4]) >>

\* the union of two bboxes: min of mins, max of maxes
UnionBox(b1, b2) ==
    <<Min2(b1[1], b2[1]), Min2(b1[2], b2[2]),
      Max2(b1[3], b2[3]), Max2(b1[4], b2[4])>>

\* sort key (bbox[1], bbox[0]) of sorted(...) / list.sort, compared as tuples
LessYX(a, b) ==
    \/ a.bbox[2] < b.bbox[2]
    \/ a.bbox[2] = b.bbox[2] /\ a.bbox[1] < b.bbox[1]

\* sort key bbox[1]
LessY(a, b) == a.bbox[2] < b.bbox[2]

RECURSIVE InsertYX(_, _)
InsertYX(x, s) ==
    IF s = <<>> THEN <<x>>
    ELSE IF LessYX(x, Head(s)) THEN <<x>> \o s
    ELSE <<Head(s)>> \o InsertYX(x, Tail(s))

\* Python's stable sort by (y, x)
RECURSIVE SortYX(_)
SortYX(s) ==
    IF s = <<>> THEN <<>>
    ELSE InsertYX(s[Len(s)], SortYX(SubSeq(s, 1, Len(s) - 1)))

RECURSIVE InsertY(_, _)
InsertY(x, s) ==
    IF s = <<>> THEN <<x>>
    ELSE IF LessY(x, Head(s)) THEN <<x>> \o s
    ELSE <<Head(s)>> \o InsertY(x, Tail(s))

\* Python's stable sort by y
RECURSIVE SortY(_)
SortY(s) ==
    IF s = <<>> THEN <<>>
    ELSE InsertY(s[Len(s)], SortY(SubSeq(s, 1, Len(s) - 1)))

\* ------------------------------------------------------- GraphRefiner

\* self.corrections, in dict order: <<pattern, replacement>>
Corrections ==
    << <<<<"d","a","t","a","l">>, <<"D","a","t","a">>>>,
       <<<<"f","o","l","o","w","i","n","g">>, <<"f","o","l","l","o","w","i","n","g">>>>,
       <<<<"f","o","l","l","o","w","i","n","g","e">>, <<"f","o","l","l","o","w","i","n","g">>>>,
       <<<<"d","a","n","d","e","l">>, <<"a","n","d">>>>,
       <<<<"d","a","n","d">>, <<"a","n","d">>>> >>

\* the class [\d\.\-\s] of the leading-bullet regex (the three non-ASCII
\* bytes of the source's class are outside the modelled alphabet)
LeadingBulletChars == Digits \cup {".", "-", " "}

\* the class [\.\:\,] of the trailing-punctuation regex
TrailingPunctChars == {".", ":", ","}

\* \bpattern\b matches text at k, ignoring case
WordMatchAt(text, pattern, k) ==
    /\ k + Len(pattern) - 1 <= Len(text)
    /\ \A i \in 1..Len(pattern) : LowerChar(text[k + i - 1]) = pattern[i]
    /\ (k = 1 \/ ~IsWordChar(text[k - 1]))
    /\ (k + Len(pattern) > Len(text) \/ ~IsWordChar(text[k + Len(pattern)]))

\* regex.sub(replacement, text): leftmost non-overlapping matches
RECURSIVE SubWordFrom(_, _, _, _)
SubWordFrom(text, pattern, replacement, k) ==
    IF k > Len(text) THEN <<>>
    ELSE IF WordMatchAt(text, pattern, k)
         THEN replacement \o SubWordFrom(text, pattern, replacement, k + Len(pattern))
         ELSE <<text[k]>> \o SubWordFrom(text, pattern, replacement, k + 1)

RECURSIVE ApplyCorrections(_, _)
ApplyCorrections(text, i) ==
    IF i > Len(Corrections) THEN text
    ELSE ApplyCorrections(
             SubWordFrom(text, Corrections[i][1], Corrections[i][2], 1), i + 1)

\* GraphRefiner._normalize_label
NormalizeLabel(text) ==
    IF text = <<>> THEN <<>>
    ELSE ApplyCorrections(
             RStripIn(Strip(LStripIn(text, LeadingBulletChars)), TrailingPunctChars),
             1)

\* GraphRefiner._should_merge_text
ShouldMergeText(n1, n2) ==
    IF n1.type # "text_blob" \/ n2.type # "text_blob" THEN FALSE
    ELSE LET b1 == n1.bbox
             b2 == n2.bbox
             h1 == b1[4] - b1[2]
             h2 == b2[4] - b2[2]
             max_h == Max2(h1, h2)
             dist_x == b2[1] - b1[3]
             width1 == b1[3] - b1[1]
         IN  IF Abs((b1[2] + b1[4]) - (b2[2] + b2[4])) > 2 * max_h THEN FALSE
             ELSE (-9) * width1 <= 10 * dist_x /\ 2 * dist_x < 3 * max_h

\* the inner loop of _merge_adjacent_text_nodes: j scans forward from i + 1
RECURSIVE MergeScan(_, _, _, _, _)
MergeScan(sorted_nodes, j, current, skip_indices, merge_map) ==
    IF j > Len(sorted_nodes)
    THEN [current |-> current, skip_indices |-> skip_indices, merge_map |-> merge_map]
    ELSE IF j \in skip_indices \/ ~ShouldMergeText(current, sorted_nodes[j])
    THEN MergeScan(sorted_nodes, j + 1, current, skip_indices, merge_map)
    ELSE LET next_node == sorted_nodes[j]
             label == IF next_node.label # <<>>
                      THEN Strip(current.label \o <<" ">> \o next_node.label)
                      ELSE current.label
             merged == [current EXCEPT
                           !.label = label,
                           !.bbox = UnionBox(current.bbox, next_node.bbox)]
         IN  MergeScan(sorted_nodes, j + 1, merged, skip_indices \cup {j},
                       MapPut(merge_map, next_node.id, current.id))

\* the outer loop of _merge_adjacent_text_nodes
RECURSIVE MergeLoop(_, _, _, _, _)
MergeLoop(sorted_nodes, i, skip_indices, merge_map, merged_nodes) ==
    IF i > Len(sorted_nodes)
    THEN [nodes |-> merged_nodes, map |-> merge_map]
    ELSE IF i \in skip_indices
    THEN MergeLoop(sorted_nodes, i + 1, skip_indices, merge_map, merged_nodes)
    ELSE LET r == MergeScan(sorted_nodes, i + 1, sorted_nodes[i], skip_indices,
                            MapPut(merge_map, sorted_nodes[i].id, sorted_nodes[i].id))
         IN  MergeLoop(sorted_nodes, i + 1, r.skip_indices, r.merge_map,
                       Append(merged_nodes, r.current))

\* GraphRefiner._merge_adjacent_text_nodes: [nodes, map]
MergeAdjacentTextNodes(ns) ==
    IF ns = <<>> THEN [nodes |-> <<>>, map |-> EmptyMap]
    ELSE MergeLoop(SortYX(ns), 1, {}, EmptyMap, <<>>)

\* the loop of _deduplicate_nodes without "id_map[node["id"]] = node["id"]":
\* only a duplicate gets an entry of the id map
RECURSIVE DedupLoopNoSelfMap(_, _, _, _, _)
DedupLoopNoSelfMap(ns, i, unique_nodes, label_map, ids) ==
    IF i > Len(ns) THEN [nodes |-> unique_nodes, map |-> ids]
    ELSE LET node == ns[i]
             label == Lower(node.label)
         IN  IF label = <<>>
             THEN DedupLoopNoSelfMap(ns, i + 1, unique_nodes, label_map, ids)
             ELSE IF label \in DOMAIN label_map
             THEN DedupLoopNoSelfMap(ns, i + 1, unique_nodes, label_map,
                                     MapPut(ids, node.id, label_map[label]))
             ELSE DedupLoopNoSelfMap(ns, i + 1, Append(unique_nodes, node),
                                     MapPut(label_map, label, node.id), ids)

\* the loop of _deduplicate_nodes
RECURSIVE DedupLoop(_, _, _, _, _)
DedupLoop(ns, i, unique_nodes, label_map, ids) ==
    IF i > Len(ns) THEN [nodes |-> unique_nodes, map |-> ids]
    ELSE LET node == ns[i]
             label == Lower(node.label)
         IN  IF label = <<>>
             THEN DedupLoop(ns, i + 1, unique_nodes, label_map, ids)
             ELSE IF label \in DOMAIN label_map
             THEN DedupLoop(ns, i + 1, unique_nodes, label_map,
                            MapPut(ids, node.id, label_map[label]))
             ELSE DedupLoop(ns, i + 1, Append(unique_nodes, node),
                            MapPut(label_map, label, node.id),
                            MapPut(ids, node.id, node.id))

\* GraphRefiner._deduplicate_nodes: [nodes, map]
DeduplicateNodes(ns) == DedupLoop(ns, 1, <<>>, EmptyMap, EmptyMap)

\* _spatial_relation with an edge as wide as it is high counted as
\* horizontal
SpatialRelationTiesFlow(src, tgt) ==
    LET dx == (tgt.bbox[1] + tgt.bbox[3]) - (src.bbox[1] + src.bbox[3])
        dy == (tgt.bbox[2] + tgt.bbox[4]) - (src.bbox[2] + src.bbox[4])
    IN  IF Abs(dx) >= Abs(dy)
        THEN IF dx > 0 THEN "flows_to" ELSE "flows_from"
        ELSE "leads_to"

\* GraphRefiner._spatial_relation (dx, dy doubled to stay in the integers)
SpatialRelation(src, tgt) ==
    LET dx == (tgt.bbox[1] + tgt.bbox[3]) - (src.bbox[1] + src.bbox[3])
        dy == (tgt.bbox[2] + tgt.bbox[4]) - (src.bbox[2] + src.bbox[4])
    IN  IF Abs(dx) > Abs(dy)
        THEN IF dx > 0 THEN "flows_to" ELSE "flows_from"
        ELSE "leads_to"

\* GraphRefiner._infer_relation
InferRelation(src, tgt) ==
    LET s_lbl == Lower(src.label)
        t_lbl == Lower(tgt.label)
    IN  IF Contains(s_lbl, <<"d","a","t","a">>) /\ Contains(t_lbl, <<"p","r","o","g","r","a","m">>)
        THEN "input_to"
        ELSE IF Contains(s_lbl, <<"l","e","a","r","n","i","n","g">>) /\ Contains(t_lbl, <<"m","o","d","e","l">>)
        THEN "produces"
        ELSE IF Contains(s_lbl, <<"e","x","p","e","r","i","e","n","c","e">>) /\ Contains(t_lbl, <<"m","o","d","e","l">>)
        THEN "improves"
        ELSE IF Contains(s_lbl, <<"m","o","d","e","l">>) /\ Contains(t_lbl, <<"m","a","c","h","i","n","e"," ","l","e","a","r","n","i","n","g">>)
        THEN "defined_as"
        ELSE SpatialRelation(src, tgt)

\* any(n["id"] == x for n in nodes)
HasNode(ns, x) == \E i \in 1..Len(ns) : ns[i].id = x

\* next(n for n in nodes if n["id"] == x)
NodeById(ns, x) == ns[CHOOSE i \in 1..Len(ns) :
                         ns[i].id = x /\ \A j \in 1..(i - 1) : ns[j].id # x]

\* the "Update Edges" loop with the test of the target left out: an edge is
\* kept when its source resolves to a node
RewireEdgeSourceOnly(edge, ns, text_merge_map, dedup_map) ==
    LET mid_src == MapGet(text_merge_map, edge.from, edge.from)
        mid_tgt == MapGet(text_merge_map, edge.to, edge.to)
        final_src == MapGet(dedup_map, mid_src, mid_src)
        final_tgt == MapGet(dedup_map, mid_tgt, mid_tgt)
    IN  IF HasNode(ns, final_src) /\ final_src # final_tgt
        THEN << [from |-> final_src, to |-> final_tgt,
                 relation |-> IF HasNode(ns, final_tgt)
                              THEN InferRelation(NodeById(ns, final_src),
                                                 NodeById(ns, final_tgt))
                              ELSE edge.relation] >>
        ELSE <<>>

\* one edge of the loop with the two maps applied to the edge's own ids,
\* each on its own: the stage-3 map where it knows the id, else the
\* stage-2 map
RewireEdgeUncomposed(edge, ns, text_merge_map, dedup_map) ==
    LET final_src == MapGet(dedup_map, edge.from,
                            MapGet(text_merge_map, edge.from, edge.from))
        final_tgt == MapGet(dedup_map, edge.to,
                            MapGet(text_merge_map, edge.to, edge.to))
    IN  IF HasNode(ns, final_src) /\ HasNode(ns, final_tgt) /\ final_src # final_tgt
        THEN << [from |-> final_src, to |-> final_tgt,
                 relation |-> InferRelation(NodeById(ns, final_src),
                                            NodeById(ns, final_tgt))] >>
        ELSE <<>>

\* one edge of the "Update Edges" loop: the kept edge as <<edge>>, or <<>>
RewireEdge(edge, ns, text_merge_map, dedup_map) ==
    LET mid_src == MapGet(text_merge_map, edge.from, edge.from)
        mid_tgt == MapGet(text_merge_map, edge.to, edge.to)
        final_src == MapGet(dedup_map, mid_src, mid_src)
        final_tgt == MapGet(dedup_map, mid_tgt, mid_tgt)
    IN  IF HasNode(ns, final_src) /\ HasNode(ns, final_tgt) /\ final_src # final_tgt
        THEN << [from |-> final_src, to |-> final_tgt,
                 relation |-> InferRelation(NodeById(ns, final_src),
                                            NodeById(ns, final_tgt))] >>
        ELSE <<>>

RECURSIVE RewireEdges(_, _, _, _)
RewireEdges(edges, ns, text_merge_map, dedup_map) ==
    IF edges = <<>> THEN <<>>
    ELSE RewireEdge(Head(edges), ns, text_merge_map, dedup_map)
         \o RewireEdges(Tail(edges), ns, text_merge_map, dedup_map)

RECURSIVE NormalizeNodes(_)
NormalizeNodes(ns) ==
    IF ns = <<>> THEN <<>>
    ELSE <<[Head(ns) EXCEPT !.label = NormalizeLabel(Head(ns).label)]>>
         \o NormalizeNodes(Tail(ns))

\* GraphRefiner._refine_single_graph: the refined graph object, with the
\* two id maps it used
RefineSingleGraph(g_obj) ==
    LET normalized == NormalizeNodes(g_obj.graph.nodes)
        merged == MergeAdjacentTextNodes(normalized)
        dedup == DeduplicateNodes(merged.nodes)
        new_edges == RewireEdges(g_obj.graph.edges, dedup.nodes, merged.map, dedup.map)
    IN  [obj |-> [g_obj EXCEPT !.graph = [nodes |-> dedup.nodes, edges |-> new_edges]],
         text_merge_map |-> merged.map,
         dedup_map |-> dedup.map]

\* the bbox of a merged graph when no graph of the list has one:
\* [inf, inf, -inf, -inf]
InfBox == <<"inf", "inf", "-inf", "-inf">>

MinOver(S) == CHOOSE x \in S : \A y \in S : x <= y

MaxOver(S) == CHOOSE x \in S : \A y \in S : x >= y

RECURSIVE ConcatNodes(_)
ConcatNodes(graph_list) ==
    IF graph_list = <<>> THEN <<>>
    ELSE Head(graph_list).graph.nodes \o ConcatNodes(Tail(graph_list))

RECURSIVE ConcatEdges(_)
ConcatEdges(graph_list) ==
    IF graph_list = <<>> THEN <<>>
    ELSE Head(graph_list).graph.edges \o ConcatEdges(Tail(graph_list))

\* GraphRefiner._merge_graph_list, for a non-empty list ("if bbox:" skips
\* a graph whose bbox is the empty list)
MergeGraphList(graph_list) ==
    LET boxed == {i \in 1..Len(graph_list) : Len(graph_list[i].bbox) > 0}
    IN  [type |-> "graph",
         graph |-> [nodes |-> ConcatNodes(graph_list),
                    edges |-> ConcatEdges(graph_list)],
         source |-> graph_list[1].source,
         bbox |-> IF boxed = {} THEN InfBox
                  ELSE << MinOver({graph_list[i].bbox[1] : i \in boxed}),
                          MinOver({graph_list[i].bbox[2] : i \in boxed}),
                          MaxOver({graph_list[i].bbox[3] : i \in boxed}),
                          MaxOver({graph_list[i].bbox[4] : i \in boxed}) >>]

\* y_threshold of _are_graphs_close
GraphYThreshold == 100

\* GraphRefiner._are_graphs_close
AreGraphsClose(g1, g2) ==
    LET b1 == g1.bbox
        b2 == g2.bbox
        y_dist == IF b2[2] > b1[2] THEN Max2(0, b2[2] - b1[4])
                                   ELSE Max2(0, b1[2] - b2[4])
    IN  y_dist < GraphYThreshold

\* the indices reachable from those of S over the undirected edges adj
\* (a set of index pairs)
RECURSIVE Reach(_, _, _)
Reach(S, n, adj) ==
    LET T == S \cup {j \in 1..n : \E i \in S : <<i, j>> \in adj \/ <<j, i>> \in adj}
    IN  IF T = S THEN S ELSE Reach(T, n, adj)

\* the elements of a set of integers, ascending
RECURSIVE Ascending(_)
Ascending(S) ==
    IF S = {} THEN <<>>
    ELSE <<MinOver(S)>> \o Ascending(S \ {MinOver(S)})

\* nx.connected_components over the indices 1..n: the components in the
\* order of their smallest index (a component is listed ascending, which
\* is how a Python set of small integers iterates)
RECURSIVE Components(_, _, _)
Components(todo, n, adj) ==
    IF todo = {} THEN <<>>
    ELSE LET comp == Reach({MinOver(todo)}, n, adj)
         IN  <<Ascending(comp)>> \o Components(todo \ comp, n, adj)

RECURSIVE Pick(_, _)
Pick(s, indices) ==
    IF indices = <<>> THEN <<>>
    ELSE <<s[Head(indices)]>> \o Pick(s, Tail(indices))

RECURSIVE MergeComponents(_, _)
MergeComponents(gs, comps) ==
    IF comps = <<>> THEN <<>>
    ELSE <<MergeGraphList(Pick(gs, Head(comps)))>> \o MergeComponents(gs, Tail(comps))

\* GraphRefiner._merge_graphs_spatially
MergeGraphsSpatially(gs) ==
    LET adj == {p \in (1..Len(gs)) \X (1..Len(gs)) :
                   p[1] < p[2] /\ AreGraphsClose(gs[p[1]], gs[p[2]])}
    IN  MergeComponents(gs, Components(1..Len(gs), Len(gs), adj))

RECURSIVE RefineEach(_)
RefineEach(merged_graphs) ==
    IF merged_graphs = <<>> THEN <<>>
    ELSE <<RefineSingleGraph(Head(merged_graphs))>> \o RefineEach(Tail(merged_graphs))

\* "if refined_g["graph"]["nodes"]: refined_graphs.append(refined_g)"
RECURSIVE NonEmptyGraphs(_)
NonEmptyGraphs(refined) ==
    IF refined = <<>> THEN <<>>
    ELSE (IF Head(refined).obj.graph.nodes # <<>> THEN <<Head(refined).obj>> ELSE <<>>)
         \o NonEmptyGraphs(Tail(refined))

RECURSIVE MapsOf(_)
MapsOf(refined) ==
    IF refined = <<>> THEN <<>>
    ELSE <<[text_merge_map |-> Head(refined).text_merge_map,
            dedup_map |-> Head(refined).dedup_map]>> \o MapsOf(Tail(refined))

\* GraphRefiner.refine: [out |-> the returned list, log |-> the id maps of
\* every merged graph]
RefineGraphs(gs, mode) ==
    IF gs = <<>> THEN [out |-> <<>>, log |-> <<>>]
    ELSE LET merged_graphs == IF mode = "page_level"
                              THEN <<MergeGraphList(gs)>>
                              ELSE MergeGraphsSpatially(gs)
             refined == RefineEach(merged_graphs)
         IN  [out |-> NonEmptyGraphs(refined), log |-> MapsOf(refined)]

\* ---------------------------------------------------- SchemaGenerator

\* self.node_type_rules, in order: <<alternatives of the pattern, type>>
NodeTypeRules ==
    << << {<<"m","a","c","h","i","n","e"," ","l","e","a","r","n","i","n","g">>, <<"m","l">>}, "concept" >>,
       << {<<"l","e","a","r","n","i","n","g">>, <<"p","r","o","g","r","a","m">>, <<"a","l","g","o","r","i","t","h","m">>}, "process" >>,
       << {<<"d","a","t","a">>, <<"e","x","p","e","r","i","e","n","c","e">>, <<"t","a","s","k">>}, "data" >>,
       << {<<"m","o","d","e","l">>, <<"e","q","u","a","t","i","o","n">>, <<"r","u","l","e","s">>, <<"c","l","u","s","t","e","r","s">>}, "model" >>,
       << {<<"d","e","f","i","n","i","t","i","o","n">>, <<"t","o","m"," ","m","i","t","c","h","e","l","l">>}, "definition" >>,
       << {<<"e","q","u","a","t","i","o","n">>, <<"d","i","a","g","r","a","m">>, <<"r","u","l","e","s">>}, "example" >> >>

\* self.relation_map
RelationMap ==
    [r \in {"flows_to", "leads_to", "produces", "input_to", "defined_as",
            "flows_from", "connected_to"} |->
        CASE r = "flows_to" -> "input_to"
          [] r = "leads_to" -> "leads_to"
          [] r = "produces" -> "produces"
          [] r = "input_to" -> "input_to"
          [] r = "defined_as" -> "defined_as"
          [] r = "flows_from" -> "is_type_of"
          [] r = "connected_to" -> "leads_to"]

StopWords ==
    {<<"f","o","l","l","o","w","i","n","g">>, <<"b","a","s","e">>, <<"a","n","d">>, <<"o","r">>, <<"o","f">>, <<"t","h","e">>, <<"w","i","t","h","o","u","t">>,
     <<"t","h","a","t">>, <<"g","i","v","e","s">>, <<"p","r","o","g","r","a","m","m","e","d">>}

\* model_subtypes (the same list in _generate_graph_knowledge and in
\* _inject_core_edges)
ModelSubtypes ==
    << <<"m","a","t","h","e","m","a","t","i","c","a","l","_","e","q","u","a","t","i","o","n">>, <<"r","e","l","a","t","i","o","n","a","l","_","d","i","a","g","r","a","m","s","_","l","i","k","e","_","g","r","a","p","h","s","_","t","r","e","e","s">>,
       <<"l","o","g","i","c","a","l","_","i","f","_","e","l","s","e","_","r","u","l","e","s">>, <<"g","r","o","u","p","i","n","g","s","_","c","a","l","l","e","d","_","c","l","u","s","t","e","r","s">> >>

DefinitionKeywords == {<<"d","e","f","i","n","i","t","i","o","n">>, <<"f","i","e","l","d"," ","o","f"," ","s","t","u","d","y">>, <<"t","o","m"," ","m","i","t","c","h","e","l","l">>}

ModelId == <<"m","o","d","e","l">>

DataId == <<"d","a","t","a">>

LearningProgramId == <<"l","e","a","r","n","i","n","g","_","p","r","o","g","r","a","m">>

DataLearningProgramId == <<"d","a","t","a","_","l","e","a","r","n","i","n","g","_","p","r","o","g","r","a","m">>

MachineLearningId == <<"m","a","c","h","i","n","e","_","l","e","a","r","n","i","n","g">>

DefinitionOfMlId == <<"d","e","f","i","n","i","t","i","o","n","_","o","f","_","m","l">>

\* the [:50] of _make_slug
SlugMaxLen == 50

RECURSIVE InferTypeFrom(_, _)
InferTypeFrom(l, i) ==
    IF i > Len(NodeTypeRules) THEN "concept"
    ELSE IF \E alt \in NodeTypeRules[i][1] : Contains(l, alt)
         THEN NodeTypeRules[i][2]
         ELSE InferTypeFrom(l, i + 1)

\* SchemaGenerator._infer_type
InferType(label) == InferTypeFrom(Lower(label), 1)

\* re.sub(r'[^a-z0-9]+', '_', text)
RECURSIVE SlugRuns(_, _)
SlugRuns(text, in_run) ==
    IF text = <<>> THEN <<>>
    ELSE IF Head(text) \in LowerLetters \cup Digits
         THEN <<Head(text)>> \o SlugRuns(Tail(text), FALSE)
         ELSE (IF in_run THEN <<>> ELSE <<"_">>) \o SlugRuns(Tail(text), TRUE)

\* SchemaGenerator._make_slug
MakeSlug(text) ==
    Take(RStripIn(LStripIn(SlugRuns(Lower(text), FALSE), {"_"}), {"_"}), SlugMaxLen)

\* SchemaGenerator._is_definition_text
IsDefinitionText(text) == \E kw \in DefinitionKeywords : Contains(Lower(text), kw)

\* SchemaGenerator._is_same_paragraph: -0.5 * height <= dy < 1.8 * height
IsSameParagraph(n1, n2) ==
    LET dy == n2.bbox[2] - n1.bbox[4]
        height == n1.bbox[4] - n1.bbox[2]
    IN  -height <= 2 * dy /\ 5 * dy < 9 * height

\* re.sub(r'\s+', ' ', text)
RECURSIVE CollapseSpaces(_, _)
CollapseSpaces(text, in_run) ==
    IF text = <<>> THEN <<>>
    ELSE IF IsSpace(Head(text))
         THEN (IF in_run THEN <<>> ELSE <<" ">>) \o CollapseSpaces(Tail(text), TRUE)
         ELSE <<Head(text)>> \o CollapseSpaces(Tail(text), FALSE)

RECURSIVE LabelsOf(_)
LabelsOf(ns) ==
    IF ns = <<>> THEN <<>> ELSE <<Head(ns).label>> \o LabelsOf(Tail(ns))

\* SchemaGenerator._flush_chunk (an f-string is kept as <<prefix, value>>)
FlushChunk(chunk, source_id) ==
    [doc_id |-> <<"page_", source_id>>,
     chunk_id |-> <<"chunk_", chunk[1].id>>,
     type |-> "text",
     content |-> Strip(CollapseSpaces(JoinSpace(LabelsOf(chunk)), FALSE)),
     metadata |-> [source_image |-> source_id,
                   topic |-> "extracted_knowledge",
                   page |-> 1]]

\* the loop of _generate_text_knowledge, with the final flush
RECURSIVE TextLoop(_, _, _, _, _)
TextLoop(sorted_nodes, i, current_chunk, paragraphs, source_id) ==
    IF i > Len(sorted_nodes)
    THEN IF current_chunk # <<>>
         THEN Append(paragraphs, FlushChunk(current_chunk, source_id))
         ELSE paragraphs
    ELSE LET node == sorted_nodes[i]
             is_sentence == Len(Split(node.label)) > 5
             is_definition == IsDefinitionText(node.label)
         IN  IF current_chunk = <<>>
             THEN IF ~(is_sentence \/ is_definition)
                  THEN TextLoop(sorted_nodes, i + 1, <<>>, paragraphs, source_id)
                  ELSE TextLoop(sorted_nodes, i + 1, <<node>>, paragraphs, source_id)
             ELSE IF IsSameParagraph(current_chunk[Len(current_chunk)], node)
                  THEN TextLoop(sorted_nodes, i + 1, Append(current_chunk, node),
                                paragraphs, source_id)
                  ELSE TextLoop(sorted_nodes, i + 1, <<node>>,
                                Append(paragraphs, FlushChunk(current_chunk, source_id)),
                                source_id)

\* SchemaGenerator._generate_text_knowledge
GenerateTextKnowledge(ns, source_id) == TextLoop(SortY(ns), 1, <<>>, <<>>, source_id)

\* "1. Process Nodes": [nodes |-> canonical_nodes, node_map, node_type_map]
RECURSIVE ProcessNodes(_, _, _, _, _, _)
ProcessNodes(ns, i, canonical_nodes, node_map, node_type_map, source_id) ==
    IF i > Len(ns)
    THEN [nodes |-> canonical_nodes, node_map |-> node_map,
          node_type_map |-> node_type_map]
    ELSE LET n == ns[i]
             stripped == Strip(n.label)
             label == IF Contains(stripped, <<"D","a","t","a"," ","L","e","a","r","n","i","n","g"," ","p","r","o","g","r","a","m">>)
                      THEN <<"L","e","a","r","n","i","n","g"," ","P","r","o","g","r","a","m">> ELSE stripped
             words == Split(label)
             pruned == \/ stripped = <<>>
                       \/ Len(words) > 5
                       \/ Lower(label) \in StopWords
                       \/ Lower(words[1]) \in StopWords
             clean_id == MakeSlug(label)
             n_type == InferType(label)
         IN  IF pruned
             THEN ProcessNodes(ns, i + 1, canonical_nodes, node_map, node_type_map,
                               source_id)
             ELSE ProcessNodes(ns, i + 1,
                      Append(canonical_nodes,
                             [node_id |-> clean_id, label |-> label, type |-> n_type,
                              aliases |-> <<Lower(label)>>, source |-> source_id]),
                      MapPut(node_map, n.id, clean_id),
                      MapPut(node_type_map, clean_id, n_type),
                      source_id)

NodeIds(canonical_nodes) ==
    {canonical_nodes[i].node_id : i \in 1..Len(canonical_nodes)}

\* "3. Inject Core Nodes (Model) if missing"
InjectModelNode(canonical_nodes, source_id) ==
    LET present_ids == NodeIds(canonical_nodes)
    IN  IF (\E k \in 1..Len(ModelSubtypes) : ModelSubtypes[k] \in present_ids)
           /\ ModelId \notin present_ids
        THEN Append(canonical_nodes,
                    [node_id |-> ModelId, label |-> <<"M","o","d","e","l">>, type |-> "model",
                     aliases |-> <<<<"m","o","d","e","l">>>>, source |-> source_id])
        ELSE canonical_nodes

\* the relation an admitted edge gets
EdgeRelation(raw_rel, src, tgt, src_type, tgt_type) ==
    LET rel0 == MapGet(RelationMap, raw_rel, "leads_to")
        rel1 == IF Contains(src, <<"d","a","t","a">>) /\ Contains(tgt, <<"p","r","o","g","r","a","m">>)
                THEN "input_to" ELSE rel0
        rel2 == IF Contains(src, <<"p","r","o","g","r","a","m">>) /\ Contains(tgt, <<"m","o","d","e","l">>)
                THEN "produces" ELSE rel1
        rel3 == IF Contains(tgt, <<"d","e","f","i","n","i","t","i","o","n">>) THEN "defined_as" ELSE rel2
        rel4 == IF Contains(src, <<"d","e","f","i","n","i","t","i","o","n">>) THEN "defined_as" ELSE rel3
    IN  IF raw_rel \in {"flows_from", "connected_to"}
        THEN IF tgt_type \in {"model", "example"} /\ src_type = "model"
             THEN "is_type_of"
             ELSE IF tgt_type = "example" THEN "example_of" ELSE rel4
        ELSE rel4

\* the edge filter with "src != tgt" left out
EdgeAdmittedLoops(src, tgt, present_ids, node_type_map) ==
    /\ src # <<>> /\ tgt # <<>>
    /\ src \in present_ids
    /\ tgt \in present_ids
    /\ LET src_type == MapGet(node_type_map, src, "concept")
           tgt_type == MapGet(node_type_map, tgt, "concept")
       IN  ~(/\ src_type \in {"model", "example"}
             /\ tgt_type \in {"model", "example"}
             /\ src # ModelId /\ tgt # ModelId)

\* the edge filter with the "Filter Sibling Edges" test left out
EdgeAdmittedSiblings(src, tgt, present_ids, node_type_map) ==
    /\ src # <<>> /\ tgt # <<>> /\ src # tgt
    /\ src \in present_ids
    /\ tgt \in present_ids

\* one turn of the "2. Process Edges" loop: does the edge pass the filters?
\* (node_map.get gives None for an unknown id; None and the empty slug are
\* both falsy, and both are <<>> here)
EdgeAdmitted(src, tgt, present_ids, node_type_map) ==
    /\ src # <<>> /\ tgt # <<>> /\ src # tgt
    /\ src \in present_ids
    /\ tgt \in present_ids
    /\ LET src_type == MapGet(node_type_map, src, "concept")
           tgt_type == MapGet(node_type_map, tgt, "concept")
       IN  ~(/\ src_type \in {"model", "example"}
             /\ tgt_type \in {"model", "example"}
             /\ src # ModelId /\ tgt # ModelId)

\* the "2. Process Edges" loop without the test of existing_edges
RECURSIVE ProcessEdgesRepeated(_, _, _, _, _, _, _)
ProcessEdgesRepeated(edges, node_map, node_type_map, present_ids, canonical_edges, existing_edges, source_id) ==
    IF edges = <<>>
    THEN [edges |-> canonical_edges, existing_edges |-> existing_edges]
    ELSE LET e == Head(edges)
             src == MapGet(node_map, e.from, <<>>)
             tgt == MapGet(node_map, e.to, <<>>)
         IN  IF EdgeAdmitted(src, tgt, present_ids, node_type_map)
             THEN ProcessEdgesRepeated(Tail(edges), node_map, node_type_map, present_ids,
                      Append(canonical_edges,
                             [from |-> src, to |-> tgt,
                              relation |-> EdgeRelation(e.relation, src, tgt,
                                              MapGet(node_type_map, src, "concept"),
                                              MapGet(node_type_map, tgt, "concept")),
                              confidence |-> 9, source |-> source_id]),
                      existing_edges \cup {<<src, tgt>>}, source_id)
             ELSE ProcessEdgesRepeated(Tail(edges), node_map, node_type_map, present_ids,
                      canonical_edges, existing_edges, source_id)

\* the "2. Process Edges" loop of _generate_graph_knowledge
RECURSIVE ProcessEdges(_, _, _, _, _, _, _)
ProcessEdges(edges, node_map, node_type_map, present_ids, canonical_edges, existing_edges, source_id) ==
    IF edges = <<>>
    THEN [edges |-> canonical_edges, existing_edges |-> existing_edges]
    ELSE LET e == Head(edges)
             src == MapGet(node_map, e.from, <<>>)
             tgt == MapGet(node_map, e.to, <<>>)
         IN  IF EdgeAdmitted(src, tgt, present_ids, node_type_map)
                /\ <<src, tgt>> \notin existing_edges
             THEN ProcessEdges(Tail(edges), node_map, node_type_map, present_ids,
                      Append(canonical_edges,
                             [from |-> src, to |-> tgt,
                              relation |-> EdgeRelation(e.relation, src, tgt,
                                              MapGet(node_type_map, src, "concept"),
                                              MapGet(node_type_map, tgt, "concept")),
                              confidence |-> 9, source |-> source_id]),
                      existing_edges \cup {<<src, tgt>>}, source_id)
             ELSE ProcessEdges(Tail(edges), node_map, node_type_map, present_ids,
                      canonical_edges, existing_edges, source_id)

\* an injected edge (confidence 1.0, in tenths)
CoreEdge(src, tgt, rel, source_id) ==
    [from |-> src, to |-> tgt, relation |-> rel, confidence |-> 10,
     source |-> source_id]

\* the model -> subtype loop without the test of existing_edges
RECURSIVE InjectSubtypeEdgesAlways(_, _, _, _, _)
InjectSubtypeEdgesAlways(k, node_ids, edges, existing_edges, source_id) ==
    IF k > Len(ModelSubtypes) THEN edges
    ELSE IF ModelSubtypes[k] \in node_ids
         THEN InjectSubtypeEdgesAlways(k + 1, node_ids,
                  Append(edges, CoreEdge(ModelId, ModelSubtypes[k], "is_type_of", source_id)),
                  existing_edges, source_id)
         ELSE InjectSubtypeEdgesAlways(k + 1, node_ids, edges, existing_edges, source_id)

\* the "Model -> Subtypes" loop of _inject_core_edges
RECURSIVE InjectSubtypeEdges(_, _, _, _, _)
InjectSubtypeEdges(k, node_ids, edges, existing_edges, source_id) ==
    IF k > Len(ModelSubtypes) THEN edges
    ELSE IF ModelSubtypes[k] \in node_ids
            /\ <<ModelId, ModelSubtypes[k]>> \notin existing_edges
         THEN InjectSubtypeEdges(k + 1, node_ids,
                  Append(edges, CoreEdge(ModelId, ModelSubtypes[k], "is_type_of", source_id)),
                  existing_edges, source_id)
         ELSE InjectSubtypeEdges(k + 1, node_ids, edges, existing_edges, source_id)

\* _inject_core_edges without the "Core Flow" edge from data to the
\* learning program
InjectCoreEdgesNoDataFlow(canonical_nodes, edges, existing_edges, source_id) ==
    LET node_ids == NodeIds(canonical_nodes)
        lp_id == IF LearningProgramId \in node_ids
                 THEN LearningProgramId ELSE DataLearningProgramId
        add2 == lp_id \in node_ids /\ ModelId \in node_ids
                /\ <<lp_id, ModelId>> \notin existing_edges
        edges2 == IF add2 THEN Append(edges, CoreEdge(lp_id, ModelId, "produces", source_id))
                  ELSE edges
        existing2 == IF add2 THEN existing_edges \cup {<<lp_id, ModelId>>}
                     ELSE existing_edges
        edges3 == IF ModelId \in node_ids
                  THEN InjectSubtypeEdges(1, node_ids, edges2, existing2, source_id)
                  ELSE edges2
    IN  IF MachineLearningId \in node_ids /\ DefinitionOfMlId \in node_ids
           /\ <<MachineLearningId, DefinitionOfMlId>> \notin existing2
        THEN Append(edges3, CoreEdge(MachineLearningId, DefinitionOfMlId,
                                     "defined_as", source_id))
        ELSE edges3

\* SchemaGenerator._inject_core_edges: the edge list after the injection
InjectCoreEdges(canonical_nodes, edges, existing_edges, source_id) ==
    LET node_ids == NodeIds(canonical_nodes)
        lp_id == IF LearningProgramId \in node_ids
                 THEN LearningProgramId ELSE DataLearningProgramId
        add1 == DataId \in node_ids /\ lp_id \in node_ids
                /\ <<DataId, lp_id>> \notin existing_edges
        edges1 == IF add1 THEN Append(edges, CoreEdge(DataId, lp_id, "input_to", source_id))
                  ELSE edges
        existing1 == IF add1 THEN existing_edges \cup {<<DataId, lp_id>>}
                     ELSE existing_edges
        add2 == lp_id \in node_ids /\ ModelId \in node_ids
                /\ <<lp_id, ModelId>> \notin existing1
        edges2 == IF add2 THEN Append(edges1, CoreEdge(lp_id, ModelId, "produces", source_id))
                  ELSE edges1
        existing2 == IF add2 THEN existing1 \cup {<<lp_id, ModelId>>} ELSE existing1
        edges3 == IF ModelId \in node_ids
                  THEN InjectSubtypeEdges(1, node_ids, edges2, existing2, source_id)
                  ELSE edges2
    IN  IF MachineLearningId \in node_ids /\ DefinitionOfMlId \in node_ids
           /\ <<MachineLearningId, DefinitionOfMlId>> \notin existing2
        THEN Append(edges3, CoreEdge(MachineLearningId, DefinitionOfMlId,
                                     "defined_as", source_id))
        ELSE edges3

\* SchemaGenerator._generate_graph_knowledge
GenerateGraphKnowledge(ns, edges, source_id) ==
    LET processed == ProcessNodes(ns, 1, <<>>, EmptyMap, EmptyMap, source_id)
        canonical_nodes == InjectModelNode(processed.nodes, source_id)
        admitted == ProcessEdges(edges, processed.node_map, processed.node_type_map,
                                 NodeIds(canonical_nodes), <<>>, {}, source_id)
    IN  [graph_id |-> <<"kg_", source_id>>,
         nodes |-> canonical_nodes,
         edges |-> InjectCoreEdges(canonical_nodes, admitted.edges,
                                   admitted.existing_edges, source_id),
         metadata |-> [source_image |-> source_id, page |-> 1]]

\* canonical_graph.get(key, [])
GraphGet(g, key) == IF key \in DOMAIN g THEN g[key] ELSE <<>>

\* SchemaGenerator.generate ("not canonical_graph" holds of the empty dict)
Generate(g, source_id) ==
    IF DOMAIN g = {}
    THEN [text_knowledge |-> <<>>, graph_knowledge |-> EmptyMap]
    ELSE [text_knowledge |-> GenerateTextKnowledge(GraphGet(g, "nodes"), source_id),
          graph_knowledge |-> GenerateGraphKnowledge(GraphGet(g, "nodes"),
                                                     GraphGet(g, "edges"), source_id)]

\* --------------------------------------------------- DiagramProcessor

\* the region types the detector and the OCR adapter emit
RegionTypes == {"text", "text_line", "text_content", "connector",
                "diagram_container", "unknown"}

\* the types t with "text" in t
TextTypes == {"text", "text_line", "text_content"}

\* the types t with "container" in t
ContainerTypes == {"diagram_container"}

\* the types t with "connector" in t
ConnectorTypes == {"connector"}

\* t.get("text", "")
TextOf(e) == IF "text" \in DOMAIN e THEN e.text ELSE <<>>

\* [e for e in s if e's type is one of types]
RECURSIVE SelectByType(_, _)
SelectByType(s, types) ==
    IF s = <<>> THEN <<>>
    ELSE (IF Head(s).type \in types THEN <<Head(s)>> ELSE <<>>)
         \o SelectByType(Tail(s), types)

\* the centre of bbox lies strictly inside box (_get_center gives halves:
\* both sides are doubled)
CenterInside(bbox, box) ==
    /\ 2 * box[1] < bbox[1] + bbox[3] /\ bbox[1] + bbox[3] < 2 * box[3]
    /\ 2 * box[2] < bbox[2] + bbox[4] /\ bbox[2] + bbox[4] < 2 * box[4]

RECURSIVE TextsOf(_)
TextsOf(es) == IF es = <<>> THEN <<>> ELSE <<TextOf(Head(es))>> \o TextsOf(Tail(es))

\* the text elements whose centre is strictly inside c_bbox, in list order
RECURSIVE ContainedText(_, _)
ContainedText(text_elements, c_bbox) ==
    IF text_elements = <<>> THEN <<>>
    ELSE (IF CenterInside(Head(text_elements).bbox, c_bbox)
          THEN <<Head(text_elements)>> ELSE <<>>)
         \o ContainedText(Tail(text_elements), c_bbox)

\* "1. Create nodes from Containers": the k-th node takes the id fresh[k],
\* the value uuid4 gave it
RECURSIVE ContainerNodes(_, _, _, _)
ContainerNodes(containers, text_elements, fresh, k) ==
    IF containers = <<>> THEN <<>>
    ELSE LET container == Head(containers)
             contained_text == SortYX(ContainedText(text_elements, container.bbox))
         IN  << [id |-> <<"", fresh[k]>>,
                 label |-> JoinSpace(TextsOf(contained_text)),
                 type |-> "container",
                 bbox |-> container.bbox] >>
             \o ContainerNodes(Tail(containers), text_elements, fresh, k + 1)

\* "2. Create nodes from Standalone Text": the node list after the loop.
\* "for n in nodes" runs over the list (node_list) that the loop itself
\* appends to, so a text is tested against the containers and against the
\* text_blob nodes made before it
RECURSIVE TextBlobNodes(_, _, _, _)
TextBlobNodes(text_elements, node_list, fresh, k) ==
    IF text_elements = <<>> THEN node_list
    ELSE LET t == Head(text_elements)
             is_contained == \E i \in 1..Len(node_list) :
                                 CenterInside(t.bbox, node_list[i].bbox)
         IN  IF is_contained
             THEN TextBlobNodes(Tail(text_elements), node_list, fresh, k)
             ELSE TextBlobNodes(Tail(text_elements),
                      Append(node_list,
                             [id |-> <<"text_", fresh[k]>>, label |-> TextOf(t),
                              type |-> "text_blob", bbox |-> t.bbox]),
                      fresh, k + 1)

\* DiagramProcessor._identify_nodes
IdentifyNodes(elements, fresh) ==
    LET containers == SelectByType(elements, ContainerTypes)
        text_elements == SelectByType(elements, TextTypes)
        container_nodes == ContainerNodes(containers, text_elements, fresh, 1)
    IN  TextBlobNodes(text_elements, container_nodes, fresh, Len(container_nodes) + 1)

\* how many uuid4 values _identify_nodes draws for these elements
IdsNeeded(elements) == Len(IdentifyNodes(elements, [k \in 1..Len(elements) |-> "u"]))

\* math.hypot between the centres, squared and doubled twice: the order of
\* the distances is the order of these integers
Dist2(b1, b2) ==
    LET dx == (b1[1] + b1[3]) - (b2[1] + b2[3])
        dy == (b1[2] + b1[4]) - (b2[2] + b2[4])
    IN  dx * dx + dy * dy

\* insertion by distance that puts the later of two equally distant nodes
\* first
RECURSIVE InsertByDistTiesLast(_, _, _)
InsertByDistTiesLast(x, s, c_bbox) ==
    IF s = <<>> THEN <<x>>
    ELSE IF Dist2(c_bbox, x.bbox) <= Dist2(c_bbox, Head(s).bbox) THEN <<x>> \o s
    ELSE <<Head(s)>> \o InsertByDistTiesLast(x, Tail(s), c_bbox)

\* distances.sort(key=lambda x: x[0]): stable insertion by distance
RECURSIVE InsertByDist(_, _, _)
InsertByDist(x, s, c_bbox) ==
    IF s = <<>> THEN <<x>>
    ELSE IF Dist2(c_bbox, x.bbox) < Dist2(c_bbox, Head(s).bbox) THEN <<x>> \o s
    ELSE <<Head(s)>> \o InsertByDist(x, Tail(s), c_bbox)

RECURSIVE SortByDist(_, _)
SortByDist(s, c_bbox) ==
    IF s = <<>> THEN <<>>
    ELSE InsertByDist(s[Len(s)], SortByDist(SubSeq(s, 1, Len(s) - 1), c_bbox), c_bbox)

\* the edge one connector gives (the graph has at least two nodes)
ConnectorEdge(connector, ns) ==
    LET distances == SortByDist(ns, connector.bbox)
        node_a == distances[1]
        node_b == distances[2]
        a == node_a.bbox
        b == node_b.bbox
        a_first == \/ a[2] + a[4] < b[2] + b[4]
                   \/ a[1] + a[3] < b[1] + b[3]
        source == IF a_first THEN node_a ELSE node_b
        target == IF a_first THEN node_b ELSE node_a
    IN  [from |-> source.id, to |-> target.id, relation |-> "connected_to",
         connector_id |-> "unknown"]

RECURSIVE ConnectorEdges(_, _)
ConnectorEdges(connectors, ns) ==
    IF connectors = <<>> THEN <<>>
    ELSE <<ConnectorEdge(Head(connectors), ns)>> \o ConnectorEdges(Tail(connectors), ns)

\* DiagramProcessor._identify_edges
IdentifyEdges(elements, ns) ==
    IF Len(ns) < 2 THEN <<>>
    ELSE ConnectorEdges(SelectByType(elements, ConnectorTypes), ns)

\* DiagramProcessor.process
ProcessDiagram(region, source_id, fresh) ==
    LET ns == IdentifyNodes(region.elements, fresh)
    IN  [type |-> "graph",
         graph |-> [nodes |-> ns, edges |-> IdentifyEdges(region.elements, ns)],
         source |-> source_id,
         bbox |-> region.bbox]

\* ------------------------------------------------- RegionConsolidator

\* x_threshold, y_threshold of RegionConsolidator.__init__
XThreshold == 50

YThreshold == 20

\* threshold of the diagram clustering, and of the text attachment
DiagramProximity == 30

TextProximity == 10

\* the closeness test with the threshold itself counted as close
RegionsWithinOrAt(r1, r2, threshold) ==
    LET b1 == r1.bbox
        b2 == r2.bbox
        x_overlap == Max2(0, Min2(b1[3] + threshold + 1, b2[3]) - Max2(b1[1] - threshold - 1, b2[1]))
        y_overlap == Max2(0, Min2(b1[4] + threshold + 1, b2[4]) - Max2(b1[2] - threshold - 1, b2[2]))
    IN  x_overlap > 0 /\ y_overlap > 0

\* RegionConsolidator._regions_intersect_or_close
RegionsIntersectOrClose(r1, r2, threshold) ==
    LET b1 == r1.bbox
        b2 == r2.bbox
        x_overlap == Max2(0, Min2(b1[3] + threshold, b2[3]) - Max2(b1[1] - threshold, b2[1]))
        y_overlap == Max2(0, Min2(b1[4] + threshold, b2[4]) - Max2(b1[2] - threshold, b2[2]))
    IN  x_overlap > 0 /\ y_overlap > 0

BoxOfAll(rs) ==
    << MinOver({rs[i].bbox[1] : i \in 1..Len(rs)}),
       MinOver({rs[i].bbox[2] : i \in 1..Len(rs)}),
       MaxOver({rs[i].bbox[3] : i \in 1..Len(rs)}),
       MaxOver({rs[i].bbox[4] : i \in 1..Len(rs)}) >>

\* RegionConsolidator._merge_diagram_group
MergeDiagramGroup(rs) == [type |-> "DIAGRAM", bbox |-> BoxOfAll(rs), elements |-> rs]

RECURSIVE GroupsOf(_, _)
GroupsOf(rs, comps) ==
    IF comps = <<>> THEN <<>>
    ELSE <<MergeDiagramGroup(Pick(rs, Head(comps)))>> \o GroupsOf(rs, Tail(comps))

\* RegionConsolidator._consolidate_diagrams
ConsolidateDiagrams(rs) ==
    IF rs = <<>> THEN <<>>
    ELSE LET adj == {p \in (1..Len(rs)) \X (1..Len(rs)) :
                        p[1] < p[2]
                        /\ RegionsIntersectOrClose(rs[p[1]], rs[p[2]], DiagramProximity)}
         IN  GroupsOf(rs, Components(1..Len(rs), Len(rs), adj))

\* RegionConsolidator._merge_text_group (n_lines is len(regions): the
\* lines this paragraph was merged from)
MergeTextGroup(rs) ==
    [type |-> "TEXT_PARAGRAPH",
     bbox |-> BoxOfAll(rs),
     text |-> JoinSpace(TextsOf(SortYX(rs))),
     n_lines |-> Len(rs)]

\* the loop of _consolidate_text without the final flush: the paragraph
\* still open when the lines run out is not appended
RECURSIVE ParagraphLoopNoFlush(_, _, _, _)
ParagraphLoopNoFlush(sorted_regions, i, current_paragraph, paragraphs) ==
    IF i > Len(sorted_regions)
    THEN paragraphs
    ELSE LET prev == current_paragraph[Len(current_paragraph)]
             curr == sorted_regions[i]
             x_overlap == Max2(0, Min2(prev.bbox[3], curr.bbox[3])
                                  - Max2(prev.bbox[1], curr.bbox[1]))
             vertical_gap == curr.bbox[2] - prev.bbox[4]
             is_close_y == vertical_gap < YThreshold
             is_aligned_x == x_overlap > 0
                             \/ Abs(curr.bbox[1] - prev.bbox[1]) < XThreshold
         IN  IF is_close_y /\ is_aligned_x
             THEN ParagraphLoopNoFlush(sorted_regions, i + 1,
                                       Append(current_paragraph, curr), paragraphs)
             ELSE ParagraphLoopNoFlush(sorted_regions, i + 1, <<curr>>,
                                       Append(paragraphs, MergeTextGroup(current_paragraph)))

\* the loop of _consolidate_text with each line compared with the first
\* line of the running paragraph
RECURSIVE ParagraphLoopFirstLine(_, _, _, _)
ParagraphLoopFirstLine(sorted_regions, i, current_paragraph, paragraphs) ==
    IF i > Len(sorted_regions)
    THEN Append(paragraphs, MergeTextGroup(current_paragraph))
    ELSE LET prev == current_paragraph[1]
             curr == sorted_regions[i]
             x_overlap == Max2(0, Min2(prev.bbox[3], curr.bbox[3])
                                  - Max2(prev.bbox[1], curr.bbox[1]))
             vertical_gap == curr.bbox[2] - prev.bbox[4]
             is_close_y == vertical_gap < YThreshold
             is_aligned_x == x_overlap > 0
                             \/ Abs(curr.bbox[1] - prev.bbox[1]) < XThreshold
         IN  IF is_close_y /\ is_aligned_x
             THEN ParagraphLoopFirstLine(sorted_regions, i + 1,
                                         Append(current_paragraph, curr), paragraphs)
             ELSE ParagraphLoopFirstLine(sorted_regions, i + 1, <<curr>>,
                                         Append(paragraphs, MergeTextGroup(current_paragraph)))

\* the loop of _consolidate_text, with the final flush
RECURSIVE ParagraphLoop(_, _, _, _)
ParagraphLoop(sorted_regions, i, current_paragraph, paragraphs) ==
    IF i > Len(sorted_regions)
    THEN Append(paragraphs, MergeTextGroup(current_paragraph))
    ELSE LET prev == current_paragraph[Len(current_paragraph)]
             curr == sorted_regions[i]
             x_overlap == Max2(0, Min2(prev.bbox[3], curr.bbox[3])
                                  - Max2(prev.bbox[1], curr.bbox[1]))
             vertical_gap == curr.bbox[2] - prev.bbox[4]
             is_close_y == vertical_gap < YThreshold
             is_aligned_x == x_overlap > 0
                             \/ Abs(curr.bbox[1] - prev.bbox[1]) < XThreshold
         IN  IF is_close_y /\ is_aligned_x
             THEN ParagraphLoop(sorted_regions, i + 1, Append(current_paragraph, curr),
                                paragraphs)
             ELSE ParagraphLoop(sorted_regions, i + 1, <<curr>>,
                                Append(paragraphs, MergeTextGroup(current_paragraph)))

\* RegionConsolidator._consolidate_text
ConsolidateText(ts) ==
    IF ts = <<>> THEN <<>>
    ELSE LET sorted_regions == SortY(ts)
         IN  ParagraphLoop(sorted_regions, 2, <<sorted_regions[1]>>, <<>>)

\* the inner loop of "2. Assign Text to Diagram Groups": the index of the
\* first group the text is close to, or 0
FirstGroupFor(text, groups) ==
    IF \E g \in 1..Len(groups) : RegionsIntersectOrClose(text, groups[g], TextProximity)
    THEN MinOver({g \in 1..Len(groups) :
                     RegionsIntersectOrClose(text, groups[g], TextProximity)})
    ELSE 0

\* the outer loop with the group's bbox left as it was on each attach
RECURSIVE AssignTextFixedBox(_, _, _)
AssignTextFixedBox(ts, groups, remaining_text) ==
    IF ts = <<>> THEN [groups |-> groups, remaining_text |-> remaining_text]
    ELSE LET text == Head(ts)
             g == FirstGroupFor(text, groups)
         IN  IF g = 0
             THEN AssignTextFixedBox(Tail(ts), groups, Append(remaining_text, text))
             ELSE AssignTextFixedBox(Tail(ts),
                      [groups EXCEPT ![g].elements = Append(@, text)],
                      remaining_text)

\* the outer loop: [groups, remaining_text]
RECURSIVE AssignText(_, _, _)
AssignText(ts, groups, remaining_text) ==
    IF ts = <<>> THEN [groups |-> groups, remaining_text |-> remaining_text]
    ELSE LET text == Head(ts)
             g == FirstGroupFor(text, groups)
         IN  IF g = 0
             THEN AssignText(Tail(ts), groups, Append(remaining_text, text))
             ELSE AssignText(Tail(ts),
                      [groups EXCEPT
                          ![g].elements = Append(@, text),
                          ![g].bbox = UnionBox(@, text.bbox)],
                      remaining_text)

\* "structural_elements = [r for r in diagram_regions if "text" not in r["type"]]"
StructuralElements(rs) == SelectByType(rs, RegionTypes \ TextTypes)

\* RegionConsolidator.consolidate: consolidated_regions
Consolidate(drs, trs) ==
    LET assigned == AssignText(trs, ConsolidateDiagrams(StructuralElements(drs)), <<>>)
    IN  assigned.groups \o ConsolidateText(assigned.remaining_text)

\* ---------------------------------------------------- DiagramDetector
\* A contour is the record of what OpenCV measures on it:
\*   x, y, w, h        cv2.boundingRect
\*   area              cv2.contourArea
\*   child_idx         hierarchy[i][2]  (-1: no child)
\*   approx4, approx6  len(cv2.approxPolyDP) at 4% and at 6% of the perimeter
\*   circle_area       pi * radius^2 of cv2.minEnclosingCircle
\*   hull_area         cv2.contourArea(cv2.convexHull)

\* area below which a contour is noise
NoiseArea == 100

\* area above which a contour with a child is a container candidate
ChildContainerArea == 1000

\* area above which any contour is a container candidate, and below which
\* the text branch is taken
ContainerArea == 3000

\* classify_shape with the solidity test ahead of the vertex counts
ClassifyShapeSolidityFirst(cnt) ==
    LET vertices == IF cnt.approx4 > 6 THEN cnt.approx6 ELSE cnt.approx4
        w == cnt.w
        h == cnt.h
        area == cnt.area
        fits_rectangle == /\ vertices >= 4 /\ vertices <= 8
                          /\ area > 100
                          /\ 6 * (w * h) <= 10 * area /\ area <= w * h
        is_circle == /\ vertices > 6
                     /\ 7 * cnt.circle_area <= 10 * area
                     /\ 10 * area <= 13 * cnt.circle_area
    IN  IF cnt.hull_area > 0 /\ 2 * area < cnt.hull_area THEN "arrow_or_line"
        ELSE IF vertices = 2 THEN "line"
        ELSE IF vertices = 3 THEN "triangle"
        ELSE IF fits_rectangle
        THEN IF 9 * h <= 10 * w /\ 10 * w <= 11 * h THEN "square" ELSE "rectangle"
        ELSE IF is_circle THEN "circle"
        ELSE "complex_polygon"

\* DiagramDetector.classify_shape
ClassifyShape(cnt) ==
    LET vertices == IF cnt.approx4 > 6 THEN cnt.approx6 ELSE cnt.approx4
        w == cnt.w
        h == cnt.h
        area == cnt.area
        fits_rectangle == /\ vertices >= 4 /\ vertices <= 8
                          /\ area > 100
                          /\ 6 * (w * h) <= 10 * area /\ area <= w * h
        is_circle == /\ vertices > 6
                     /\ 7 * cnt.circle_area <= 10 * area
                     /\ 10 * area <= 13 * cnt.circle_area
    IN  IF vertices = 2 THEN "line"
        ELSE IF vertices = 3 THEN "triangle"
        ELSE IF fits_rectangle
        THEN IF 9 * h <= 10 * w /\ 10 * w <= 11 * h THEN "square" ELSE "rectangle"
        ELSE IF is_circle THEN "circle"
        ELSE IF cnt.hull_area > 0 /\ 2 * area < cnt.hull_area THEN "arrow_or_line"
        ELSE "complex_polygon"

\* the shape names s with "line" in s or "arrow" in s
LineOrArrowShapes == {"line", "arrow_or_line"}

\* one turn of the loop of detect_regions without the page-wrapper test
DetectContourNoPageTest(cnt, img_area) ==
    LET w == cnt.w
        h == cnt.h
        area == cnt.area
        region(region_type, shape_type) ==
            << [type |-> region_type,
                bbox |-> <<cnt.x, cnt.y, cnt.x + w, cnt.y + h>>,
                area |-> area,
                cnt |-> cnt,
                shape |-> shape_type] >>
    IN  IF area < NoiseArea THEN <<>>
        ELSE IF (cnt.child_idx # -1 /\ area > ChildContainerArea) \/ area > ContainerArea
        THEN IF h > 10 * w THEN <<>>
             ELSE IF w > 8 * h THEN region("text_line", "unknown")
             ELSE region("diagram_container", ClassifyShape(cnt))
        ELSE IF area < ContainerArea
        THEN IF w > 3 * h
             THEN IF ClassifyShape(cnt) \in LineOrArrowShapes
                  THEN region("connector", ClassifyShape(cnt))
                  ELSE region("text_line", ClassifyShape(cnt))
             ELSE region("text", "unknown")
        ELSE region("unknown", "unknown")

\* what one turn of the loop of detect_regions appends for cnt: <<region>>,
\* or <<>> when the contour is skipped
DetectContour(cnt, img_area) ==
    LET w == cnt.w
        h == cnt.h
        area == cnt.area
        region(region_type, shape_type) ==
            << [type |-> region_type,
                bbox |-> <<cnt.x, cnt.y, cnt.x + w, cnt.y + h>>,
                area |-> area,
                cnt |-> cnt,
                shape |-> shape_type] >>
    IN  IF area < NoiseArea THEN <<>>
        ELSE IF (cnt.child_idx # -1 /\ area > ChildContainerArea) \/ area > ContainerArea
        THEN IF 2 * (w * h) > img_area THEN <<>>
             ELSE IF h > 10 * w THEN <<>>
             ELSE IF w > 8 * h THEN region("text_line", "unknown")
             ELSE region("diagram_container", ClassifyShape(cnt))
        ELSE IF area < ContainerArea
        THEN IF w > 3 * h
             THEN IF ClassifyShape(cnt) \in LineOrArrowShapes
                  THEN region("connector", ClassifyShape(cnt))
                  ELSE region("text_line", ClassifyShape(cnt))
             ELSE region("text", "unknown")
        ELSE region("unknown", "unknown")

\* the loop of DiagramDetector.detect_regions over the contours found
RECURSIVE DetectRegions(_, _)
DetectRegions(cnts, img_area) ==
    IF cnts = <<>> THEN <<>>
    ELSE DetectContour(Head(cnts), img_area) \o DetectRegions(Tail(cnts), img_area)

\* ------------------------------------------------------------- inputs

\* source_id: os.path.basename(image_path)
SourceId == "test2.png"

\* the ids of input nodes, by position in the node list
IdNames == <<"n1", "n2", "n3", "n4", "n5", "n6">>

\* an id no node has
GhostId == "ghost"

\* bounds of the refiner's input
MaxNodes == 3

MaxEdges == 1

Node(label, type, bbox) == [label |-> label, type |-> type, bbox |-> bbox]

\* node templates of the refiner's input: two words of one line, a
\* container, a bulleted lower-case duplicate of it, an unlabelled box
RefinePool ==
    { Node(<<"M","a","c","h","i","n","e">>, "text_blob", <<0, 0, 60, 20>>),
      Node(<<"L","e","a","r","n","i","n","g">>, "text_blob", <<62, 0, 130, 20>>),
      Node(<<"D","a","t","a">>, "container", <<0, 100, 80, 140>>),
      Node(<<"1","."," ","d","a","t","a",".">>, "text_blob", <<300, 300, 360, 320>>),
      Node(<<>>, "container", <<200, 0, 260, 40>>) }

\* node templates of a canonical graph handed to SchemaGenerator: two
\* labels with one slug, a stop-word label, the two ends of a core edge
SchemaPool ==
    { Node(<<"D","a","t","a">>, "container", <<0, 100, 80, 140>>),
      Node(<<"D","a","t","a","!">>, "container", <<0, 200, 80, 240>>),
      Node(<<"t","h","e"," ","p","r","o","g","r","a","m">>, "text_blob", <<300, 300, 360, 320>>),
      Node(<<"L","e","a","r","n","i","n","g"," ","P","r","o","g","r","a","m">>, "container", <<200, 100, 320, 140>>),
      Node(<<"M","o","d","e","l">>, "container", <<400, 100, 480, 140>>) }

\* the sequences of at most n elements of S
RECURSIVE SeqsUpTo(_, _)
SeqsUpTo(S, n) ==
    IF n = 0 THEN {<<>>} ELSE SeqsUpTo(S, n - 1) \cup [1..n -> S]

\* those without a repeated element
DistinctSeqs(S, n) ==
    {q \in SeqsUpTo(S, n) : \A i, j \in 1..Len(q) : i < j => q[i] # q[j]}

\* the templates given ids by position
RECURSIVE WithIds(_, _)
WithIds(templates, k) ==
    IF templates = <<>> THEN <<>>
    ELSE << [id |-> IdNames[k], label |-> Head(templates).label,
             type |-> Head(templates).type, bbox |-> Head(templates).bbox] >>
         \o WithIds(Tail(templates), k + 1)

\* the edges an input graph may hold over n nodes: any two ids of its
\* nodes or the ghost id, any input relation
InputEdges(n) ==
    { [from |-> a, to |-> b, relation |-> "connected_to", connector_id |-> "unknown"] :
        a \in {IdNames[i] : i \in 1..n} \cup {GhostId},
        b \in {IdNames[i] : i \in 1..n} \cup {GhostId} }

GraphObj(ns, es) ==
    [type |-> "graph", graph |-> [nodes |-> ns, edges |-> es],
     source |-> SourceId,
     bbox |-> IF ns = <<>> THEN <<>> ELSE BoxOfAll(ns)]

\* the graph lists refine() is given: no graph, one graph, or the first
\* node in a graph of its own
GraphLists(ns, es) ==
    {<<GraphObj(ns, es)>>}
    \cup (IF ns = <<>> /\ es = <<>> THEN {<<>>} ELSE {})
    \cup (IF Len(ns) >= 2
          THEN {<<GraphObj(<<Head(ns)>>, <<>>), GraphObj(Tail(ns), es)>>}
          ELSE {})

\* ------------------------------------------------------------ actions

\* value of an output not produced yet
NotYet == <<"not yet">>

detectVars == <<image_area, contours, regions>>

consolidateVars == <<diagram_regions, text_regions, consolidated>>

refineVars == <<final_text_regions, graphs, merge_mode, refined_graphs, refine_log>>

schemaVars == <<canonical_graph, knowledge_output>>

stageVars == <<input_nodes, nodes, id_map, prev_nodes>>

runVars == <<run, first_output>>

DetectIdle == image_area = 0 /\ contours = <<>> /\ regions = NotYet

ConsolidateIdle ==
    diagram_regions = <<>> /\ text_regions = <<>> /\ consolidated = NotYet

RefineIdle ==
    final_text_regions = NotYet /\ graphs = <<>> /\ merge_mode = "page_level"
    /\ refined_graphs = NotYet /\ refine_log = NotYet

SchemaIdle == canonical_graph = NotYet /\ knowledge_output = NotYet

StageIdle ==
    input_nodes = <<>> /\ nodes = NotYet /\ id_map = NotYet /\ prev_nodes = NotYet

RunIdle == run = 1 /\ first_output = NotYet

\* GraphRefiner.refine(final_output["graphs"], merge_mode)
Refine ==
    /\ pc = "refine"
    /\ LET r == RefineGraphs(graphs, merge_mode)
       IN  refined_graphs' = r.out /\ refine_log' = r.log
    /\ pc' = "refined"
    /\ UNCHANGED <<final_text_regions, graphs, merge_mode>>
    /\ UNCHANGED <<detectVars, consolidateVars, schemaVars, stageVars, runVars>>

\* main: "if final_output["graphs"]:" generate the knowledge artifacts from
\* the first refined graph
GenerateKnowledge ==
    /\ pc = "refined"
    /\ refined_graphs # <<>>
    /\ canonical_graph' = refined_graphs[1].graph
    /\ knowledge_output' = Generate(refined_graphs[1].graph, SourceId)
    /\ pc' = "done"
    /\ UNCHANGED <<detectVars, consolidateVars, refineVars, stageVars, runVars>>

\* main: no refined graph, no knowledge artifact
SkipKnowledge ==
    /\ pc = "refined"
    /\ refined_graphs = <<>>
    /\ pc' = "done"
    /\ UNCHANGED <<detectVars, consolidateVars, refineVars, schemaVars, stageVars,
                   runVars>>

\* SchemaGenerator.generate called on a canonical graph of the caller's
GenerateFrom ==
    /\ pc = "generate"
    /\ knowledge_output' = Generate(canonical_graph, SourceId)
    /\ pc' = "generated"
    /\ UNCHANGED canonical_graph
    /\ UNCHANGED <<detectVars, consolidateVars, refineVars, stageVars, runVars>>

\* refine() is given graphs over the refiner's node templates
InitRefine ==
    /\ pc = "refine"
    /\ \E ts \in DistinctSeqs(RefinePool, MaxNodes) :
       \E es \in SeqsUpTo(InputEdges(Len(ts)), MaxEdges) :
           graphs \in GraphLists(WithIds(ts, 1), es)
    /\ merge_mode \in {"page_level", "proximity"}
    /\ final_text_regions = NotYet
    /\ refined_graphs = NotYet /\ refine_log = NotYet
    /\ DetectIdle /\ ConsolidateIdle /\ SchemaIdle /\ StageIdle /\ RunIdle

\* the relations a canonical graph's edge may carry
InputRelations == {"connected_to", "flows_from", "leads_to"}

\* generate() is given the empty dict, or a graph over the schema's node
\* templates whose edges join any two ids
InitGenerate ==
    /\ pc = "generate"
    /\ \/ canonical_graph = EmptyMap
       \/ \E ts \in DistinctSeqs(SchemaPool, MaxNodes) :
          \E es \in SeqsUpTo(InputEdges(Len(ts)), MaxEdges) :
          \E rel \in InputRelations :
              canonical_graph =
                  [nodes |-> WithIds(ts, 1),
                   edges |-> [i \in 1..Len(es) |->
                                 [from |-> es[i].from, to |-> es[i].to,
                                  relation |-> rel]]]
    /\ knowledge_output = NotYet
    /\ DetectIdle /\ ConsolidateIdle /\ RefineIdle /\ StageIdle /\ RunIdle

NextRefine == Refine \/ GenerateKnowledge \/ SkipKnowledge \/ GenerateFrom

\* the refiner and the schema generator, on graphs of the caller's
SpecRefine == (InitRefine \/ InitGenerate) /\ [][NextRefine]_vars

\* ------------------------------------------------------------- claims

\* refine() has returned
RefineReturned == pc \in {"refined", "done"}

\* generate() has returned a graph_knowledge that is not the empty dict
KnowledgeGraphMade ==
    /\ \/ pc = "generated"
       \/ pc = "done" /\ refined_graphs # <<>>
    /\ DOMAIN knowledge_output.graph_knowledge # {}

\* the edges of the graphs given to refine(), in one list
InputGraphEdges == ConcatEdges(graphs)

\* C1: every edge of a graph returned by GraphRefiner.refine joins two ids
\* of that graph's node list, and every edge of graph_knowledge joins two
\* node_ids of graph_knowledge.nodes
C1_EdgesReferToNodes ==
    /\ RefineReturned =>
         \A g \in 1..Len(refined_graphs) :
           \A k \in 1..Len(refined_graphs[g].graph.edges) :
             /\ HasNode(refined_graphs[g].graph.nodes, refined_graphs[g].graph.edges[k].from)
             /\ HasNode(refined_graphs[g].graph.nodes, refined_graphs[g].graph.edges[k].to)
    /\ KnowledgeGraphMade =>
         LET gk == knowledge_output.graph_knowledge
         IN  \A k \in 1..Len(gk.edges) :
               /\ gk.edges[k].from \in NodeIds(gk.nodes)
               /\ gk.edges[k].to \in NodeIds(gk.nodes)

\* C1 witness: an edge whose input endpoint was deduplicated away is kept,
\* rewired to the surviving node, and reaches graph_knowledge
C1_RewiredEdgeKept ==
    /\ pc = "done" /\ refined_graphs # <<>>
    /\ Len(InputGraphEdges) = 1
    /\ Len(refined_graphs[1].graph.edges) = 1
    /\ InputGraphEdges[1].from \in DOMAIN refine_log[1].dedup_map
    /\ refined_graphs[1].graph.edges[1].from # InputGraphEdges[1].from
    /\ DOMAIN knowledge_output.graph_knowledge # {}
    /\ Len(knowledge_output.graph_knowledge.edges) = 1

\* C2: no edge of a graph returned by GraphRefiner.refine and no edge of
\* graph_knowledge has from = to
C2_NoSelfLoops ==
    /\ RefineReturned =>
         \A g \in 1..Len(refined_graphs) :
           \A k \in 1..Len(refined_graphs[g].graph.edges) :
             refined_graphs[g].graph.edges[k].from # refined_graphs[g].graph.edges[k].to
    /\ KnowledgeGraphMade =>
         LET gk == knowledge_output.graph_knowledge
         IN  \A k \in 1..Len(gk.edges) : gk.edges[k].from # gk.edges[k].to

\* C2 witness: generate() is given an edge between two nodes whose labels
\* make one slug, and keeps no edge
C2_SlugCollisionDropped ==
    /\ pc = "generated"
    /\ DOMAIN canonical_graph # {}
    /\ Len(canonical_graph.edges) = 1
    /\ canonical_graph.edges[1].from # canonical_graph.edges[1].to
    /\ HasNode(canonical_graph.nodes, canonical_graph.edges[1].from)
    /\ HasNode(canonical_graph.nodes, canonical_graph.edges[1].to)
    /\ MakeSlug(NodeById(canonical_graph.nodes, canonical_graph.edges[1].from).label)
         = MakeSlug(NodeById(canonical_graph.nodes, canonical_graph.edges[1].to).label)
    /\ knowledge_output.graph_knowledge.edges = <<>>

\* ------------------------------------------- _deduplicate_nodes, twice

\* bound of the node list given to _deduplicate_nodes
MaxDedup == 3

\* the labels of its nodes: three spellings of one word, another word, and
\* the empty label
DedupLabels == {<<"D","a","t","a">>, <<"d","a","t","a">>, <<"D","A","T","A">>, <<"M","o","d","e","l">>, <<>>}

\* the ids of its nodes (two nodes of a list may share one)
DedupIds == {"n1", "n2", "n3"}

DedupNodes ==
    { [id |-> i, label |-> l, type |-> "container", bbox |-> <<0, 0, 80, 40>>] :
        i \in DedupIds, l \in DedupLabels }

\* _deduplicate_nodes is given a node list
InitDedup ==
    /\ pc = "dedup"
    /\ input_nodes \in SeqsUpTo(DedupNodes, MaxDedup)
    /\ nodes = NotYet /\ id_map = NotYet /\ prev_nodes = NotYet
    /\ DetectIdle /\ ConsolidateIdle /\ RefineIdle /\ SchemaIdle /\ RunIdle

\* unique_nodes, id_map = self._deduplicate_nodes(nodes), on the list the
\* last call returned
Deduplicate ==
    /\ pc \in {"dedup", "dedup_1"}
    /\ LET arg == IF pc = "dedup" THEN input_nodes ELSE nodes
           r == DeduplicateNodes(arg)
       IN  nodes' = r.nodes /\ id_map' = r.map /\ prev_nodes' = arg
    /\ pc' = IF pc = "dedup" THEN "dedup_1" ELSE "dedup_2"
    /\ UNCHANGED input_nodes
    /\ UNCHANGED <<detectVars, consolidateVars, refineVars, schemaVars, runVars>>

SpecDedup == InitDedup /\ [][Deduplicate]_vars

\* C3: the second application of _deduplicate_nodes returns the list it was
\* given, and its id map sends the id of each node of the list to itself
\* and has no other entry
C3_DedupIdempotent ==
    pc = "dedup_2" =>
      /\ nodes = prev_nodes
      /\ DOMAIN id_map = {nodes[i].id : i \in 1..Len(nodes)}
      /\ \A k \in DOMAIN id_map : id_map[k] = k

\* C3 witness: the second application has returned, after the first one
\* dropped a node without a label and a duplicate in another spelling
C3_DedupTwiceAfterDrop ==
    /\ pc = "dedup_2"
    /\ Len(input_nodes) = 3
    /\ input_nodes[1].label = <<>>
    /\ input_nodes[3].label = <<"d","a","t","a">>
    /\ input_nodes[3].id = "n3"
    /\ Len(nodes) = 1
    /\ nodes[1].label = <<"D","a","t","a">>
    /\ nodes[1].id = "n2"

\* ------------------------------------- RegionConsolidator.consolidate

\* bounds of the two lists given to consolidate()
MaxRegions == 3

MaxLines == 2

Region(type, shape, bbox) ==
    [type |-> type, bbox |-> bbox,
     area |-> (bbox[3] - bbox[1]) * (bbox[4] - bbox[2]), shape |-> shape]

\* regions as the detector emits them: a box, a connector beside it, a box
\* 29 pixels right of the connector, a box 30 pixels under the first one,
\* a box far away, and two regions the detector typed as text
DetectorPool ==
    { Region("diagram_container", "rectangle", <<0, 0, 100, 60>>),
      Region("connector", "line", <<110, 20, 150, 30>>),
      Region("diagram_container", "rectangle", <<179, 0, 279, 60>>),
      Region("diagram_container", "rectangle", <<0, 90, 100, 150>>),
      Region("diagram_container", "rectangle", <<400, 400, 500, 460>>),
      Region("text_line", "complex_polygon", <<0, 200, 200, 220>>),
      Region("text", "unknown", <<20, 20, 40, 40>>) }

Line(text, bbox) == [type |-> "text_content", bbox |-> bbox, text |-> text]

\* OCR lines: one inside the first box, one 5 pixels off the corner of the
\* first box (and 5 pixels off the box under it), one 7 pixels right of
\* that line, two lines of one paragraph, and one on its own
OcrPool ==
    { Line(<<"D","a","t","a">>, <<10, 10, 60, 30>>),
      Line(<<"b","e","s","i","d","e">>, <<105, 65, 205, 85>>),
      Line(<<"b","e","y","o","n","d">>, <<212, 40, 300, 60>>),
      Line(<<"n","o","t","e","s">>, <<0, 600, 100, 620>>),
      Line(<<"m","o","r","e">>, <<0, 625, 100, 645>>),
      Line(<<"f","a","r">>, <<300, 700, 380, 720>>) }

\* consolidate() is given the detector's regions and the OCR lines
InitConsolidate ==
    /\ pc = "consolidate"
    /\ diagram_regions \in DistinctSeqs(DetectorPool, MaxRegions)
    /\ text_regions \in DistinctSeqs(OcrPool, MaxLines)
    /\ consolidated = NotYet
    /\ DetectIdle /\ RefineIdle /\ SchemaIdle /\ StageIdle /\ RunIdle

\* consolidated_output = consolidator.consolidate(diagram_regions, text_regions)
ConsolidateRegions ==
    /\ pc = "consolidate"
    /\ consolidated' = Consolidate(diagram_regions, text_regions)
    /\ pc' = "consolidated"
    /\ UNCHANGED <<diagram_regions, text_regions>>
    /\ UNCHANGED <<detectVars, refineVars, schemaVars, stageVars, runVars>>

SpecConsolidate == InitConsolidate /\ [][ConsolidateRegions]_vars

\* the regions held in the elements of the DIAGRAM groups plus the lines
\* merged into the TEXT_PARAGRAPHs
RECURSIVE RegionsHeld(_)
RegionsHeld(rs) ==
    IF rs = <<>> THEN 0
    ELSE (IF Head(rs).type = "DIAGRAM" THEN Len(Head(rs).elements)
          ELSE Head(rs).n_lines)
         + RegionsHeld(Tail(rs))

\* C4 as stated: the output holds as many regions as the two input lists
C4_AllRegionsConserved ==
    pc = "consolidated" =>
      RegionsHeld(consolidated) = Len(diagram_regions) + Len(text_regions)

\* C4: the output holds as many regions as there are regions of the first
\* list whose type has no "text" in it, plus all the lines of the second
C4_NonTextRegionsConserved ==
    pc = "consolidated" =>
      RegionsHeld(consolidated)
        = Len(SelectByType(diagram_regions, RegionTypes \ TextTypes))
          + Len(text_regions)

\* C4 witness: a region typed text_line by the detector is left out, while
\* a box, the line inside it and a paragraph of two lines are kept
C4_TextTypedRegionLeftOut ==
    /\ pc = "consolidated"
    /\ Len(diagram_regions) = 2
    /\ diagram_regions[1].type = "diagram_container"
    /\ diagram_regions[2].type = "text_line"
    /\ Len(text_regions) = 2
    /\ Len(consolidated) = 2
    /\ consolidated[1].type = "DIAGRAM"
    /\ Len(consolidated[1].elements) = 1
    /\ consolidated[2].type = "TEXT_PARAGRAPH"
    /\ consolidated[2].n_lines = 2

\* --------------------------------------- _merge_adjacent_text_nodes

\* bound of the node list given to _merge_adjacent_text_nodes
MaxBlobs == 2

\* bboxes of words: three heights of a word at the left with one centre
\* line, the same of a word two pixels to its right, a word 35 pixels to
\* the right, and a word on the next line
BlobBoxes ==
    { <<0, 10, 60, 30>>, <<0, 15, 60, 25>>, <<0, 0, 60, 40>>,
      <<62, 10, 130, 30>>, <<62, 15, 130, 25>>, <<62, 0, 130, 40>>,
      <<95, 10, 160, 30>>, <<0, 40, 60, 60>> }

BlobPool ==
    { Node(l, t, b) : l \in {<<"M","a","c","h","i","n","e">>, <<"L","e","a","r","n","i","n","g">>, <<>>},
                      t \in {"text_blob", "container"},
                      b \in BlobBoxes }

\* _merge_adjacent_text_nodes is given a node list
InitMerge ==
    /\ pc = "merge"
    /\ \E ts \in SeqsUpTo(BlobPool, MaxBlobs) : input_nodes = WithIds(ts, 1)
    /\ nodes = NotYet /\ id_map = NotYet /\ prev_nodes = NotYet
    /\ DetectIdle /\ ConsolidateIdle /\ RefineIdle /\ SchemaIdle /\ RunIdle

\* nodes, text_merge_map = self._merge_adjacent_text_nodes(nodes)
MergeText ==
    /\ pc = "merge"
    /\ LET r == MergeAdjacentTextNodes(input_nodes)
       IN  nodes' = r.nodes /\ id_map' = r.map /\ prev_nodes' = input_nodes
    /\ pc' = "merged"
    /\ UNCHANGED input_nodes
    /\ UNCHANGED <<detectVars, consolidateVars, refineVars, schemaVars, runVars>>

SpecMerge == InitMerge /\ [][MergeText]_vars

\* l and r are two labelled text_blob nodes of one line: their vertical
\* centres coincide, and r starts g pixels right of l's right edge with
\* 0 <= g < 1.5 * max(height)
SameLinePair(l, r) ==
    LET h1 == l.bbox[4] - l.bbox[2]
        h2 == r.bbox[4] - r.bbox[2]
        g == r.bbox[1] - l.bbox[3]
    IN  /\ l.type = "text_blob" /\ r.type = "text_blob"
        /\ l.label # <<>> /\ r.label # <<>>
        /\ l.bbox[2] + l.bbox[4] = r.bbox[2] + r.bbox[4]
        /\ g >= 0 /\ 2 * g < 3 * Max2(h1, h2)

\* C5: two text_blob nodes of one line, given in either order, come back
\* as one node with the id of the left one, the label "left right", the
\* union of the two bboxes, and the map sends the right id to the left id
C5_SameLineTextMerged ==
    pc = "merged" /\ Len(input_nodes) = 2 =>
      \A i, j \in 1..2 :
        i # j /\ SameLinePair(input_nodes[i], input_nodes[j]) =>
          /\ Len(nodes) = 1
          /\ nodes[1].id = input_nodes[i].id
          /\ nodes[1].label = input_nodes[i].label \o <<" ">> \o input_nodes[j].label
          /\ nodes[1].bbox = UnionBox(input_nodes[i].bbox, input_nodes[j].bbox)
          /\ id_map[input_nodes[j].id] = input_nodes[i].id

\* C5 witness: the two words of equal height are merged
C5_EqualHeightMerged ==
    /\ pc = "merged" /\ Len(input_nodes) = 2
    /\ input_nodes[2].bbox = <<0, 10, 60, 30>>
    /\ input_nodes[1].bbox = <<62, 10, 130, 30>>
    /\ SameLinePair(input_nodes[2], input_nodes[1])
    /\ Len(nodes) = 1
    /\ nodes[1].label = <<"M","a","c","h","i","n","e"," ","L","e","a","r","n","i","n","g">>
    /\ nodes[1].bbox = <<0, 10, 130, 30>>
    /\ id_map["n1"] = "n2"

\* ------------------------------------ DiagramDetector.detect_regions

\* bound of the contour list
MaxContours == 1

\* image.shape[0] * image.shape[1]: a 1000 x 1000 and a 1500 x 1000 image
ImageAreas == {1000000, 1500000}

\* bounding boxes <<w, h>>: 60% of the smaller image, a wide stroke, a box,
\* a vertical line, a text line
ContourSizes == {<<1000, 600>>, <<120, 30>>, <<60, 50>>, <<10, 200>>, <<400, 40>>}

\* contour areas on both sides of 100, 1000 and 3000
ContourAreas == {50, 500, 2000, 3000, 5000}

\* <<len(approx) at 4%, len(approx) at 6%>>
ApproxCounts == {<<2, 2>>, <<4, 4>>, <<7, 2>>, <<7, 7>>}

\* the contours cv2.findContours may give: the area lies within the
\* bounding box, the hull area is the area (solidity 1) or four times it
\* (solidity 0.25), the enclosing circle's area is 1.25 or 5 times the area
ContourPool ==
    { cnt \in
      { [x |-> 10, y |-> 20, w |-> s[1], h |-> s[2], area |-> a, child_idx |-> c,
         approx4 |-> v[1], approx6 |-> v[2],
         circle_area |-> (k * a) \div 4, hull_area |-> f * a] :
        s \in ContourSizes,
        a \in ContourAreas,
        c \in {-1, 0},
        v \in ApproxCounts,
        k \in {5, 20},
        f \in {1, 4} } :
      cnt.area <= cnt.w * cnt.h }

\* detect_regions is given an image whose contours are these
InitDetect ==
    /\ pc = "detect"
    /\ image_area \in ImageAreas
    /\ contours \in SeqsUpTo(ContourPool, MaxContours)
    /\ regions = NotYet
    /\ ConsolidateIdle /\ RefineIdle /\ SchemaIdle /\ StageIdle /\ RunIdle

\* regions = self.detect_regions(image)
Detect ==
    /\ pc = "detect"
    /\ regions' = DetectRegions(contours, image_area)
    /\ pc' = "detected"
    /\ UNCHANGED <<image_area, contours>>
    /\ UNCHANGED <<consolidateVars, refineVars, schemaVars, stageVars, runVars>>

SpecDetect == InitDetect /\ [][Detect]_vars

\* the polygon approximation of cnt has 2 vertices and its solidity is
\* below 0.5
ThinStroke(cnt) ==
    /\ (IF cnt.approx4 > 6 THEN cnt.approx6 ELSE cnt.approx4) = 2
    /\ cnt.hull_area > 0 /\ 2 * cnt.area < cnt.hull_area

\* cnt reaches the small-region branch with width / height > 3
SmallWide(cnt) ==
    /\ cnt.area >= NoiseArea
    /\ ~((cnt.child_idx # -1 /\ cnt.area > ChildContainerArea) \/ cnt.area > ContainerArea)
    /\ cnt.area < ContainerArea
    /\ cnt.w > 3 * cnt.h

\* C7 as stated: a thin stroke is emitted with shape arrow_or_line wherever
\* classify_shape decides its shape, and as a connector from the
\* small-region branch with width / height > 3
C7_ThinStrokeArrowOrLine ==
    pc = "detected" =>
      \A i \in 1..Len(regions) :
        ThinStroke(regions[i].cnt) =>
          /\ regions[i].shape \in {"arrow_or_line", "unknown"}
          /\ SmallWide(regions[i].cnt) =>
               regions[i].shape = "arrow_or_line" /\ regions[i].type = "connector"

\* C7: a thin stroke is emitted with shape line wherever classify_shape
\* decides its shape, and as a connector of shape line from the
\* small-region branch with width / height > 3
C7_ThinStrokeLine ==
    pc = "detected" =>
      \A i \in 1..Len(regions) :
        ThinStroke(regions[i].cnt) =>
          /\ regions[i].shape \in {"line", "unknown"}
          /\ SmallWide(regions[i].cnt) =>
               regions[i].shape = "line" /\ regions[i].type = "connector"

\* C7 witness: a wide thin stroke of solidity 0.25 has come out of the
\* small-region branch
C7_ThinStrokeDetected ==
    /\ pc = "detected"
    /\ Len(regions) = 1
    /\ ThinStroke(regions[1].cnt) /\ SmallWide(regions[1].cnt)
    /\ regions[1].cnt.approx4 = 2
    /\ regions[1].type = "connector"

\* C8: no region of type diagram_container has a bounding box above half
\* of the image area
C8_NoPageWrapperContainer ==
    pc = "detected" =>
      \A i \in 1..Len(regions) :
        regions[i].type = "diagram_container" =>
          2 * (regions[i].cnt.w * regions[i].cnt.h) <= image_area

\* C8 witness: a contour of area above 3000 whose bounding box is 60% of
\* the image has been seen, and nothing was emitted for it
C8_PageWrapperSkipped ==
    /\ pc = "detected"
    /\ image_area = 1000000
    /\ Len(contours) = 1
    /\ contours[1].w * contours[1].h = 600000
    /\ contours[1].area > ContainerArea
    /\ regions = <<>>

\* ------------------------------------------------ the pipeline of main

\* TextProcessor._normalize_text
NormalizeText(text) ==
    IF text = <<>> THEN <<>> ELSE Strip(CollapseSpaces(text, FALSE))

\* TextProcessor.process
ProcessText(region, source_id) ==
    [type |-> "text", content |-> NormalizeText(TextOf(region)),
     source |-> source_id, bbox |-> region.bbox]

\* the streams of values uuid4 may give in one execution: the k-th value
\* drawn from stream s is <<s, k>>
UuidStreams == {"a", "b"}

\* main's loop over consolidated_output["regions"]; the diagram processor
\* draws its ids from stream, of which offset values are used already
RECURSIVE ProcessRegionLoop(_, _, _, _)
ProcessRegionLoop(rs, source_id, stream, offset) ==
    IF rs = <<>> THEN [text_regions |-> <<>>, graphs |-> <<>>]
    ELSE LET region == Head(rs)
         IN  IF region.type = "TEXT_PARAGRAPH"
             THEN LET rest == ProcessRegionLoop(Tail(rs), source_id, stream, offset)
                  IN  [text_regions |-> <<ProcessText(region, source_id)>> \o rest.text_regions,
                       graphs |-> rest.graphs]
             ELSE LET n == IdsNeeded(region.elements)
                      fresh == [k \in 1..n |-> <<stream, offset + k>>]
                      rest == ProcessRegionLoop(Tail(rs), source_id, stream, offset + n)
                  IN  [text_regions |-> rest.text_regions,
                       graphs |-> <<ProcessDiagram(region, source_id, fresh)>> \o rest.graphs]

\* bboxes of three boxes: two side by side, the third under the first
BoxH1 == <<0, 0, 100, 60>>

BoxH2 == <<200, 0, 300, 60>>

BoxV2 == <<0, 160, 100, 220>>

\* the detector's regions of a page: the three boxes, and connectors
\* between the first box and each of the others, nearer to either end
PageRegionPool ==
    { Region("diagram_container", "rectangle", BoxH1),
      Region("diagram_container", "rectangle", BoxH2),
      Region("diagram_container", "rectangle", BoxV2),
      Region("connector", "line", <<105, 25, 175, 35>>),
      Region("connector", "line", <<125, 25, 195, 35>>),
      Region("connector", "arrow_or_line", <<45, 65, 55, 135>>),
      Region("connector", "arrow_or_line", <<45, 85, 55, 155>>) }

\* bbox of a line written in the middle of a box
Inside(box) == <<box[1] + 10, box[2] + 20, box[3] - 10, box[4] - 20>>

\* the OCR lines of a page: the two labels in any of the boxes, a word
\* beside the second box, and a line far from every box
PageLinePool ==
    { Line(l, Inside(b)) : l \in {<<"D","a","t","a">>, <<"L","e","a","r","n","i","n","g"," ","P","r","o","g","r","a","m">>},
                           b \in {BoxH1, BoxH2, BoxV2} }
    \cup { Line(<<"D","e","f","i","n","i","t","i","o","n">>, <<305, 20, 385, 40>>),
           Line(<<"n","o","t","e","s">>, <<0, 600, 100, 620>>) }

\* main is run on a page with these regions and lines
Init ==
    /\ pc = "consolidate"
    /\ diagram_regions \in DistinctSeqs(PageRegionPool, MaxRegions)
    /\ text_regions \in DistinctSeqs(PageLinePool, MaxLines)
    /\ consolidated = NotYet
    /\ DetectIdle /\ RefineIdle /\ SchemaIdle /\ StageIdle /\ RunIdle

\* main: "for region in consolidated_output["regions"]" (uuid4 gives this
\* execution the values of one of the streams)
ProcessRegions ==
    /\ pc = "consolidated"
    /\ \E stream \in UuidStreams :
         LET r == ProcessRegionLoop(consolidated, SourceId, stream, 0)
         IN  final_text_regions' = r.text_regions /\ graphs' = r.graphs
    /\ pc' = "refine"
    /\ UNCHANGED <<merge_mode, refined_graphs, refine_log>>
    /\ UNCHANGED <<detectVars, consolidateVars, schemaVars, stageVars, runVars>>

\* what one execution of main leaves behind
Output ==
    [text_regions |-> final_text_regions, graphs |-> refined_graphs,
     knowledge |-> knowledge_output]

\* main is run again on the same regions and lines
Retry ==
    /\ pc = "done" /\ run = 1
    /\ first_output' = Output
    /\ run' = 2
    /\ pc' = "consolidate"
    /\ consolidated' = NotYet
    /\ final_text_regions' = NotYet /\ graphs' = <<>>
    /\ refined_graphs' = NotYet /\ refine_log' = NotYet
    /\ canonical_graph' = NotYet /\ knowledge_output' = NotYet
    /\ UNCHANGED <<diagram_regions, text_regions, merge_mode>>
    /\ UNCHANGED <<detectVars, stageVars>>

Next ==
    \/ ConsolidateRegions
    \/ ProcessRegions
    \/ Refine
    \/ GenerateKnowledge
    \/ SkipKnowledge
    \/ Retry

Spec == Init /\ [][Next]_vars

\* the labels of the nodes of a list, as a set
LabelSet(ns) == {ns[i].label : i \in 1..Len(ns)}

\* the page holds one diagram group made of a container labelled Data, a
\* container labelled Learning Program and one connector, and nothing else
\* became a node
DataProgramScenario ==
    /\ Len(diagram_regions) = 3
    /\ Len(SelectByType(diagram_regions, ContainerTypes)) = 2
    /\ Len(SelectByType(diagram_regions, ConnectorTypes)) = 1
    /\ Len(graphs) = 1
    /\ Len(graphs[1].graph.nodes) = 2
    /\ \A i \in 1..2 : graphs[1].graph.nodes[i].type = "container"
    /\ LabelSet(graphs[1].graph.nodes) = {<<"D","a","t","a">>, <<"L","e","a","r","n","i","n","g"," ","P","r","o","g","r","a","m">>}

\* C6: in the Data / Learning Program scenario the knowledge graph holds
\* the edge from data to learning_program with relation input_to
C6_DataInputToProgram ==
    pc = "done" /\ DataProgramScenario =>
      /\ KnowledgeGraphMade
      /\ \E k \in 1..Len(knowledge_output.graph_knowledge.edges) :
           LET e == knowledge_output.graph_knowledge.edges[k]
           IN  e.from = DataId /\ e.to = LearningProgramId /\ e.relation = "input_to"

\* C6 witness: the scenario with Learning Program in the left box and Data
\* in the right one, where the connector's edge runs from the learning
\* program to the data
C6_ProgramLeftOfData ==
    /\ pc = "done" /\ DataProgramScenario
    /\ \E i \in 1..2 :
         /\ graphs[1].graph.nodes[i].label = <<"D","a","t","a">>
         /\ graphs[1].graph.nodes[i].bbox = BoxH2
    /\ Len(graphs[1].graph.edges) = 1
    /\ \E k \in 1..Len(knowledge_output.graph_knowledge.edges) :
         LET e == knowledge_output.graph_knowledge.edges[k]
         IN  e.from = LearningProgramId /\ e.to = DataId

\* C9: the second execution on the same regions and lines leaves behind
\* what the first one did, node ids and chunk ids included
C9_RunsAgree ==
    pc = "done" /\ run = 2 => Output = first_output

\* C9 witness: the second execution has produced a graph and text chunks
C9_SecondRunDone ==
    /\ pc = "done" /\ run = 2
    /\ refined_graphs # <<>>
    /\ knowledge_output.text_knowledge # <<>>

\* an artifact that is empty and well-formed
EmptyWellFormed(k) ==
    /\ k.text_knowledge = <<>>
    /\ DOMAIN k.graph_knowledge = {"graph_id", "nodes", "edges", "metadata"}
    /\ k.graph_knowledge.nodes = <<>>
    /\ k.graph_knowledge.edges = <<>>
    /\ DOMAIN k.graph_knowledge.metadata = {"source_image", "page"}

\* C10: generate() given the empty graph returns an artifact whose
\* text_knowledge is empty and whose graph_knowledge has graph_id, empty
\* nodes, empty edges, and metadata with source_image and page
C10_EmptyResultWellFormed ==
    pc = "generated" /\ DOMAIN canonical_graph = {} =>
      EmptyWellFormed(knowledge_output)

\* C10 witness: generate() has returned from the empty graph
C10_EmptyGraphGenerated ==
    /\ pc = "generated"
    /\ DOMAIN canonical_graph = {}
    /\ knowledge_output.text_knowledge = <<>>

\* ------------------------------------------- SchemaGenerator.generate

\* bounds of the canonical graph given to generate()
MaxSchemaNodes == 3

MaxSchemaEdges == 2

\* the nodes a canonical graph may hold, in list order (which is not the
\* order of their y): the backbone concepts, a model subtype, the two ends
\* of the definition edge, a name typed as a definition, and a sentence.
\* The last three and "Machine Learning" are lines of one paragraph at the
\* top; "Data" follows "Definition of ML" within 1.8 of its height
SchemaTemplates ==
    << Node(<<"D","a","t","a">>, "container", <<0, 300, 80, 340>>),
       Node(<<"L","e","a","r","n","i","n","g"," ","P","r","o","g","r","a","m">>, "container", <<200, 300, 320, 340>>),
       Node(<<"M","o","d","e","l">>, "container", <<400, 300, 480, 340>>),
       Node(<<"M","a","t","h","e","m","a","t","i","c","a","l"," ","E","q","u","a","t","i","o","n">>, "text_blob", <<400, 400, 600, 420>>),
       Node(<<"M","a","c","h","i","n","e"," ","L","e","a","r","n","i","n","g">>, "text_blob", <<0, 50, 160, 70>>),
       Node(<<"D","e","f","i","n","i","t","i","o","n"," ","o","f"," ","M","L">>, "container", <<0, 200, 160, 240>>),
       Node(<<"T","o","m"," ","M","i","t","c","h","e","l","l">>, "text_blob", <<0, 0, 120, 20>>),
       Node(<<"i","t"," ","l","e","a","r","n","s"," ","f","r","o","m"," ","d","a","t","a"," ","b","y"," ","i","t","s","e","l","f">>, "text_blob", <<0, 25, 300, 45>>) >>

\* the relations of its edges: the one DiagramProcessor gives, and one
\* _spatial_relation gives
SchemaRelations == {"connected_to", "leads_to"}

\* the edges a canonical graph may hold over n nodes: any two of its ids
\* (one id twice included), either relation
SchemaEdges(n) ==
    { [from |-> IdNames[a], to |-> IdNames[b], relation |-> rel] :
        a \in 1..n, b \in 1..n, rel \in SchemaRelations }

\* generate() is given a graph over some of the templates, in list order
InitSchema ==
    /\ pc = "generate"
    /\ \E S \in SUBSET (1..Len(SchemaTemplates)) :
         /\ Cardinality(S) <= MaxSchemaNodes
         /\ \E es \in SeqsUpTo(SchemaEdges(Cardinality(S)), MaxSchemaEdges) :
              canonical_graph =
                  [nodes |-> WithIds(Pick(SchemaTemplates, Ascending(S)), 1),
                   edges |-> es]
    /\ knowledge_output = NotYet
    /\ DetectIdle /\ ConsolidateIdle /\ RefineIdle /\ StageIdle /\ RunIdle

SpecSchema == InitSchema /\ [][GenerateFrom]_vars

\* the core pairs of _inject_core_edges
CorePairs ==
    { <<DataId, LearningProgramId>>, <<LearningProgramId, ModelId>>,
      <<MachineLearningId, DefinitionOfMlId>> }
    \cup { <<ModelId, ModelSubtypes[k]>> : k \in 1..Len(ModelSubtypes) }

\* the positions of the edges of gk that run from p[1] to p[2]
EdgesOfPair(gk, p) ==
    {k \in 1..Len(gk.edges) : gk.edges[k].from = p[1] /\ gk.edges[k].to = p[2]}

\* an injected edge has confidence 1.0, an admitted one 0.9
Injected(e) == e.confidence = 10

\* C11: for each core pair whose two ids are node_ids of graph_knowledge,
\* graph_knowledge.edges holds exactly one edge of that pair; and every
\* injected edge joins two node_ids of graph_knowledge and shares its pair
\* with no other edge
C11_BackboneOnce ==
    KnowledgeGraphMade =>
      LET gk == knowledge_output.graph_knowledge
      IN  /\ \A p \in CorePairs :
                p[1] \in NodeIds(gk.nodes) /\ p[2] \in NodeIds(gk.nodes)
                  => Cardinality(EdgesOfPair(gk, p)) = 1
          /\ \A k \in 1..Len(gk.edges) :
                Injected(gk.edges[k]) =>
                  /\ gk.edges[k].from \in NodeIds(gk.nodes)
                  /\ gk.edges[k].to \in NodeIds(gk.nodes)
                  /\ EdgesOfPair(gk, <<gk.edges[k].from, gk.edges[k].to>>) = {k}

\* C11 witness: Data, Learning Program and a model subtype with an edge
\* from Data to Learning Program: that edge is admitted, the model node is
\* added, and the edges to and from the model are injected
C11_BackboneCompleted ==
    /\ pc = "generated"
    /\ DOMAIN canonical_graph # {}
    /\ LabelSet(canonical_graph.nodes)
         = {<<"D","a","t","a">>, <<"L","e","a","r","n","i","n","g"," ","P","r","o","g","r","a","m">>, <<"M","a","t","h","e","m","a","t","i","c","a","l"," ","E","q","u","a","t","i","o","n">>}
    /\ LET gk == knowledge_output.graph_knowledge
       IN  /\ Len(gk.edges) = 3
           /\ gk.edges[1].from = DataId /\ gk.edges[1].to = LearningProgramId
           /\ ~Injected(gk.edges[1])
           /\ gk.edges[2].from = LearningProgramId /\ gk.edges[2].to = ModelId
           /\ Injected(gk.edges[2])
           /\ gk.edges[3].from = ModelId /\ gk.edges[3].to = ModelSubtypes[1]
           /\ Injected(gk.edges[3])

\* ------------------------------------------------ the merges of bboxes

\* consolidate(), _merge_adjacent_text_nodes() and refine(), each on the
\* inputs of its own specification
NextBoxes == ConsolidateRegions \/ MergeText \/ Refine

SpecBoxes == (InitConsolidate \/ InitMerge \/ InitRefine) /\ [][NextBoxes]_vars

\* b is a bbox with x1 <= x2 and y1 <= y2
BoxOk(b) == Len(b) = 4 /\ b[1] <= b[3] /\ b[2] <= b[4]

\* the bbox outer contains the bbox inner
Covers(outer, inner) ==
    /\ outer[1] <= inner[1] /\ outer[2] <= inner[2]
    /\ inner[3] <= outer[3] /\ inner[4] <= outer[4]

\* the union of a non-empty set of bboxes
UnionOf(S) ==
    << MinOver({b[1] : b \in S}), MinOver({b[2] : b \in S}),
       MaxOver({b[3] : b \in S}), MaxOver({b[4] : b \in S}) >>

\* box is the union of the bboxes of S, contains each, and is a bbox
IsUnionOf(box, S) ==
    /\ S # {}
    /\ box = UnionOf(S)
    /\ BoxOk(box)
    /\ \A b \in S : Covers(box, b)

\* the bboxes merged into a consolidated region: those of its elements, or
\* those of the OCR lines whose word is in the paragraph's text
MergedInto(reg) ==
    IF reg.type = "DIAGRAM"
    THEN {reg.elements[i].bbox : i \in 1..Len(reg.elements)}
    ELSE {text_regions[i].bbox : i \in
             {j \in 1..Len(text_regions) :
                 \E w \in 1..Len(Split(reg.text)) : Split(reg.text)[w] = text_regions[j].text}}

\* C12: the bbox of every DIAGRAM group (after the text was attached) and of
\* every TEXT_PARAGRAPH is the union of the bboxes merged into it; the bbox
\* of every node returned by _merge_adjacent_text_nodes is the union of the
\* bboxes of the input nodes mapped to it; the bbox of the page-level graph
\* is the union of the bboxes of the input graphs, and that of a graph
\* merged by proximity is the union of those of some of them
C12_MergedBoxIsUnion ==
    /\ pc = "consolidated" =>
         \A r \in 1..Len(consolidated) :
            IsUnionOf(consolidated[r].bbox, MergedInto(consolidated[r]))
    /\ pc = "merged" =>
         \A k \in 1..Len(nodes) :
            IsUnionOf(nodes[k].bbox,
                      {input_nodes[i].bbox : i \in
                          {j \in 1..Len(input_nodes) :
                              id_map[input_nodes[j].id] = nodes[k].id}})
    /\ pc = "refined" =>
         \A g \in 1..Len(refined_graphs) :
            IF merge_mode = "page_level"
            THEN IsUnionOf(refined_graphs[g].bbox,
                           {graphs[i].bbox : i \in 1..Len(graphs)})
            ELSE \E S \in SUBSET (1..Len(graphs)) :
                    IsUnionOf(refined_graphs[g].bbox, {graphs[i].bbox : i \in S})

\* C12 witness: a line 5 pixels off the corner of a box is attached to the
\* group of the box, whose bbox grows to hold both
C12_GroupGrown ==
    /\ pc = "consolidated"
    /\ Len(diagram_regions) = 1 /\ diagram_regions[1].bbox = <<0, 0, 100, 60>>
    /\ Len(text_regions) = 1 /\ text_regions[1].bbox = <<105, 65, 205, 85>>
    /\ Len(consolidated) = 1
    /\ Len(consolidated[1].elements) = 2
    /\ consolidated[1].bbox = <<0, 0, 205, 85>>

\* generate() has returned from a canonical graph that is not the empty dict
GeneratedFromGraph == pc = "generated" /\ DOMAIN canonical_graph # {}

\* the content _flush_chunk makes of these labels
ContentOf(labels) == Strip(CollapseSpaces(JoinSpace(labels), FALSE))

\* C13: the content of every chunk of text_knowledge is made of the labels
\* of some text_blob nodes of the canonical graph, taken from top to bottom,
\* and holds the label of no container node
C13_ChunksFromTextNodes ==
    GeneratedFromGraph =>
      LET blobs == SelectByType(SortY(canonical_graph.nodes), {"text_blob"})
          boxes == SelectByType(canonical_graph.nodes, {"container"})
          tk == knowledge_output.text_knowledge
      IN  \A c \in 1..Len(tk) :
            /\ \E S \in SUBSET (1..Len(blobs)) :
                 S # {} /\ tk[c].content = ContentOf(LabelsOf(Pick(blobs, Ascending(S))))
            /\ \A b \in 1..Len(boxes) :
                 boxes[b].label # <<>> => ~Contains(tk[c].content, boxes[b].label)

\* C13 witness: the canonical graph is one container labelled
\* "Definition of ML", and its label is the content of the one chunk
C13_ContainerChunk ==
    /\ GeneratedFromGraph
    /\ Len(canonical_graph.nodes) = 1
    /\ canonical_graph.nodes[1].type = "container"
    /\ canonical_graph.nodes[1].label = <<"D","e","f","i","n","i","t","i","o","n"," ","o","f"," ","M","L">>
    /\ Len(knowledge_output.text_knowledge) = 1
    /\ knowledge_output.text_knowledge[1].content = <<"D","e","f","i","n","i","t","i","o","n"," ","o","f"," ","M","L">>

\* C15: the first node of every chunk of text_knowledge (the node whose id
\* makes the chunk_id) has a label of more than 5 words or one holding a
\* definition keyword
C15_ChunkOpensOnLongOrDefinition ==
    GeneratedFromGraph =>
      LET tk == knowledge_output.text_knowledge
      IN  \A c \in 1..Len(tk) :
            LET first == NodeById(canonical_graph.nodes, tk[c].chunk_id[2])
            IN  Len(Split(first.label)) > 5 \/ IsDefinitionText(first.label)

\* C15 witness: "Tom Mitchell" at the top opens a chunk, and the two words
\* "Mathematical Equation" far below it open the next one
C15_ShortNodeOpensAfterBreak ==
    /\ GeneratedFromGraph
    /\ Len(canonical_graph.nodes) = 2
    /\ canonical_graph.nodes[1].label = <<"M","a","t","h","e","m","a","t","i","c","a","l"," ","E","q","u","a","t","i","o","n">>
    /\ canonical_graph.nodes[2].label = <<"T","o","m"," ","M","i","t","c","h","e","l","l">>
    /\ Len(knowledge_output.text_knowledge) = 2
    /\ knowledge_output.text_knowledge[1].chunk_id = <<"chunk_", "n2">>
    /\ knowledge_output.text_knowledge[2].chunk_id = <<"chunk_", "n1">>
    /\ knowledge_output.text_knowledge[2].content = <<"M","a","t","h","e","m","a","t","i","c","a","l"," ","E","q","u","a","t","i","o","n">>

\* the type of the node of gk with this node_id
TypeOfNode(gk, id) ==
    (CHOOSE n \in {gk.nodes[i] : i \in 1..Len(gk.nodes)} : n.node_id = id).type

\* C16: every admitted edge of graph_knowledge whose target node has type
\* definition has relation defined_as
C16_DefinitionTargetDefinedAs ==
    KnowledgeGraphMade =>
      LET gk == knowledge_output.graph_knowledge
      IN  \A k \in 1..Len(gk.edges) :
            ~Injected(gk.edges[k]) /\ TypeOfNode(gk, gk.edges[k].to) = "definition"
              => gk.edges[k].relation = "defined_as"

\* C16 witness: an edge with relation leads_to from Data to the node
\* labelled "Tom Mitchell", typed definition, is admitted as leads_to
C16_EdgeToTomMitchell ==
    /\ GeneratedFromGraph
    /\ Len(canonical_graph.nodes) = 2
    /\ canonical_graph.nodes[1].label = <<"D","a","t","a">>
    /\ canonical_graph.nodes[2].label = <<"T","o","m"," ","M","i","t","c","h","e","l","l">>
    /\ canonical_graph.edges = << [from |-> "n1", to |-> "n2", relation |-> "leads_to"] >>
    /\ LET gk == knowledge_output.graph_knowledge
       IN  /\ Len(gk.edges) = 1
           /\ gk.edges[1].to = MakeSlug(<<"T","o","m"," ","M","i","t","c","h","e","l","l">>)
           /\ TypeOfNode(gk, gk.edges[1].to) = "definition"
           /\ gk.edges[1].relation = "leads_to"

\* ------------------------------------------- DiagramProcessor.process

\* bound of the detector's regions of a diagram
MaxElements == 3

\* the regions of a diagram: a box at the lower left, a box at the upper
\* right of it, a box on the row of the first, and connectors between the
\* first box and each of the others, nearer to either end
EdgePool ==
    { Region("diagram_container", "rectangle", <<0, 100, 100, 160>>),
      Region("diagram_container", "rectangle", <<200, 0, 300, 60>>),
      Region("diagram_container", "rectangle", <<200, 100, 300, 160>>),
      Region("connector", "arrow_or_line", <<105, 75, 175, 125>>),
      Region("connector", "arrow_or_line", <<125, 35, 195, 85>>),
      Region("connector", "line", <<105, 125, 175, 135>>),
      Region("connector", "line", <<125, 125, 195, 135>>) }

\* main is run on a page with these regions and no text
InitProcess ==
    /\ pc = "consolidate"
    /\ diagram_regions \in DistinctSeqs(EdgePool, MaxElements)
    /\ text_regions = <<>>
    /\ consolidated = NotYet
    /\ DetectIdle /\ RefineIdle /\ SchemaIdle /\ StageIdle /\ RunIdle

NextProcess == ConsolidateRegions \/ ProcessRegions

\* main up to the graphs DiagramProcessor.process returns
SpecProcess == InitProcess /\ [][NextProcess]_vars

\* twice the centre of a bbox
Centre2(b) == <<b[1] + b[3], b[2] + b[4]>>

\* C14: in every edge DiagramProcessor.process returns, the centre of the
\* source is higher than that of the target, or as high and further left
C14_SourceIsHigherOrLeft ==
    pc = "refine" =>
      \A g \in 1..Len(graphs) :
        \A k \in 1..Len(graphs[g].graph.edges) :
          LET e == graphs[g].graph.edges[k]
              s == Centre2(NodeById(graphs[g].graph.nodes, e.from).bbox)
              t == Centre2(NodeById(graphs[g].graph.nodes, e.to).bbox)
          IN  s[2] < t[2] \/ (s[2] = t[2] /\ s[1] < t[1])

\* C14 witness: the connector is nearer to the lower left box than to the
\* upper right one, and its edge runs from the lower box to the upper one
C14_LowerLeftIsSource ==
    /\ pc = "refine"
    /\ Len(diagram_regions) = 3
    /\ \E i \in 1..3 : diagram_regions[i].bbox = <<105, 75, 175, 125>>
    /\ Len(graphs) = 1
    /\ Len(graphs[1].graph.nodes) = 2
    /\ Len(graphs[1].graph.edges) = 1
    /\ NodeById(graphs[1].graph.nodes, graphs[1].graph.edges[1].from).bbox
         = <<0, 100, 100, 160>>
    /\ NodeById(graphs[1].graph.nodes, graphs[1].graph.edges[1].to).bbox
         = <<200, 0, 300, 60>>

\* ------------------------------------------ the two id maps of refine

\* bounds of the graph whose edges are rewired
MaxRemapNodes == 4

MaxRemapEdges == 1

\* its node templates: two words of one line, a box labelled with the two
\* words in lower case, another box, and an unlabelled box
RemapPool ==
    { Node(<<"M","a","c","h","i","n","e">>, "text_blob", <<0, 0, 60, 20>>),
      Node(<<"L","e","a","r","n","i","n","g">>, "text_blob", <<62, 0, 130, 20>>),
      Node(<<"m","a","c","h","i","n","e"," ","l","e","a","r","n","i","n","g">>, "container", <<0, 0, 140, 24>>),
      Node(<<"D","a","t","a">>, "container", <<0, 100, 80, 140>>),
      Node(<<>>, "container", <<200, 0, 260, 40>>) }

\* refine() is given one graph over these templates
InitRemap ==
    /\ pc = "refine"
    /\ \E ts \in DistinctSeqs(RemapPool, MaxRemapNodes) :
       \E es \in SeqsUpTo(InputEdges(Len(ts)), MaxRemapEdges) :
           graphs = <<GraphObj(WithIds(ts, 1), es)>>
    /\ merge_mode \in {"page_level", "proximity"}
    /\ final_text_regions = NotYet
    /\ refined_graphs = NotYet /\ refine_log = NotYet
    /\ DetectIdle /\ ConsolidateIdle /\ SchemaIdle /\ StageIdle /\ RunIdle

SpecRemap == InitRemap /\ [][Refine]_vars

\* x sent through the stage-2 map, and the result through the stage-3 map
Resolved(x, maps) ==
    LET mid == MapGet(maps.text_merge_map, x, x)
    IN  MapGet(maps.dedup_map, mid, mid)

\* the <<from, to>> of the edges, each end resolved, of those edges whose
\* two resolved ends are different ids of ids
RECURSIVE ResolvedPairs(_, _, _)
ResolvedPairs(edges, maps, ids) ==
    IF edges = <<>> THEN <<>>
    ELSE LET src == Resolved(Head(edges).from, maps)
             tgt == Resolved(Head(edges).to, maps)
         IN  (IF src \in ids /\ tgt \in ids /\ src # tgt THEN << <<src, tgt>> >> ELSE <<>>)
             \o ResolvedPairs(Tail(edges), maps, ids)

\* C17: the edges of the graph refine() returns are, in input order, the
\* input edges whose ends, resolved through the stage-2 map and then the
\* stage-3 map, are two different surviving ids, each with its resolved
\* ends
C17_EdgesResolvedThroughBothMaps ==
    pc = "refined" /\ Len(graphs) = 1 /\ refined_graphs # <<>> =>
      LET g == refined_graphs[1].graph
          ids == {g.nodes[i].id : i \in 1..Len(g.nodes)}
      IN  [k \in 1..Len(g.edges) |-> <<g.edges[k].from, g.edges[k].to>>]
            = ResolvedPairs(graphs[1].graph.edges, refine_log[1], ids)

\* C17 witness: an edge leaves the word that stage 2 merged into the word
\* before it, the merged node is a duplicate of the box that stage 3
\* keeps, and the edge comes out leaving that box
C17_MergedThenDeduplicated ==
    /\ pc = "refined" /\ Len(graphs) = 1 /\ refined_graphs # <<>>
    /\ Len(graphs[1].graph.edges) = 1
    /\ LET e == graphs[1].graph.edges[1]
           maps == refine_log[1]
           mid == MapGet(maps.text_merge_map, e.from, e.from)
       IN  /\ mid # e.from
           /\ mid \in DOMAIN maps.dedup_map
           /\ maps.dedup_map[mid] # mid
           /\ Len(refined_graphs[1].graph.edges) = 1
           /\ refined_graphs[1].graph.edges[1].from = maps.dedup_map[mid]
           /\ NodeById(refined_graphs[1].graph.nodes,
                       refined_graphs[1].graph.edges[1].from).type = "container"

\* ------------------------------------------- one edge per (from, to)

\* the slug pair the k-th edge of the canonical graph maps to
SlugPair(k) ==
    LET node_map == ProcessNodes(canonical_graph.nodes, 1, <<>>, EmptyMap, EmptyMap, SourceId).node_map
        e == canonical_graph.edges[k]
    IN  <<MapGet(node_map, e.from, <<>>), MapGet(node_map, e.to, <<>>)>>

\* the input edges mapping to the pair p, by position
InputsOfPair(p) == {k \in 1..Len(canonical_graph.edges) : SlugPair(k) = p}

\* C18: no two edges of graph_knowledge share their (from, to), injected
\* edges included; and an admitted edge of a pair carries the relation that
\* the first input edge mapping to that pair gets
C18_OneEdgePerPair ==
    KnowledgeGraphMade /\ DOMAIN canonical_graph # {} =>
      LET gk == knowledge_output.graph_knowledge
      IN  /\ \A j, k \in 1..Len(gk.edges) :
                gk.edges[j].from = gk.edges[k].from /\ gk.edges[j].to = gk.edges[k].to
                  => j = k
          /\ \A k \in 1..Len(gk.edges) :
                ~Injected(gk.edges[k]) =>
                  LET p == <<gk.edges[k].from, gk.edges[k].to>>
                  IN  /\ InputsOfPair(p) # {}
                      /\ gk.edges[k].relation
                           = EdgeRelation(canonical_graph.edges[MinOver(InputsOfPair(p))].relation,
                                          p[1], p[2], TypeOfNode(gk, p[1]), TypeOfNode(gk, p[2]))

\* C18 witness: two input edges from Model to Mathematical Equation, the
\* first "leads_to" and the second "connected_to" (which alone would give
\* is_type_of): one edge of that pair comes out, with relation leads_to,
\* and none is injected for the pair
C18_FirstOfTwoKept ==
    /\ pc = "generated"
    /\ DOMAIN canonical_graph # {}
    /\ Len(canonical_graph.edges) = 2
    /\ SlugPair(1) = <<ModelId, ModelSubtypes[1]>>
    /\ SlugPair(2) = SlugPair(1)
    /\ canonical_graph.edges[1].relation = "leads_to"
    /\ canonical_graph.edges[2].relation = "connected_to"
    /\ LET gk == knowledge_output.graph_knowledge
       IN  /\ Len(gk.edges) = 1
           /\ gk.edges[1].from = ModelId /\ gk.edges[1].to = ModelSubtypes[1]
           /\ gk.edges[1].relation = "leads_to"
           /\ ~Injected(gk.edges[1])

\* --------------------------------------------- the diagram clustering

\* the regions _consolidate_diagrams is given
StructuralRegions ==
    {diagram_regions[i] : i \in {j \in 1..Len(diagram_regions) :
                                    diagram_regions[j].type \notin TextTypes}}

\* the positions of the DIAGRAM groups in the output
DiagramGroups == {k \in 1..Len(consolidated) : consolidated[k].type = "DIAGRAM"}

\* the positions, in the elements of group k, of its structural regions
\* (the others are the OCR lines attached afterwards)
MemberPositions(k) ==
    {i \in 1..Len(consolidated[k].elements) :
        consolidated[k].elements[i].type \notin TextTypes}

Members(k) == {consolidated[k].elements[i] : i \in MemberPositions(k)}

\* the gap between two intervals (negative when they overlap)
AxisGap(lo1, hi1, lo2, hi2) == Max2(lo1, lo2) - Min2(hi1, hi2)

\* the bboxes intersect, or the gap between them is under d on both axes
NearBy(b1, b2, d) ==
    /\ AxisGap(b1[1], b1[3], b2[1], b2[3]) < d
    /\ AxisGap(b1[2], b1[4], b2[2], b2[4]) < d

\* the regions of S linked to a region of R by a chain of regions of S
\* whose consecutive bboxes are near by
RECURSIVE ChainFrom(_, _, _)
ChainFrom(R, S, d) ==
    LET next == R \cup {s \in S : \E r \in R : NearBy(r.bbox, s.bbox, d)}
    IN  IF next = R THEN R ELSE ChainFrom(next, S, d)

\* C19: every structural region is a member of exactly one DIAGRAM group,
\* once; the members of a group are the structural regions linked to any
\* one of them by a chain of regions whose consecutive bboxes intersect or
\* lie less than 30 px apart; and a group's bbox is the union of the bboxes
\* of its elements, which are its members where no line was attached
C19_GroupsAreChains ==
    pc = "consolidated" =>
      /\ \A s \in StructuralRegions :
            Cardinality({k \in DiagramGroups : s \in Members(k)}) = 1
      /\ \A k \in DiagramGroups :
            /\ Members(k) # {}
            /\ Members(k) \subseteq StructuralRegions
            /\ Cardinality(Members(k)) = Cardinality(MemberPositions(k))
            /\ \A s \in Members(k) :
                  Members(k) = ChainFrom({s}, StructuralRegions, DiagramProximity)
            /\ IsUnionOf(consolidated[k].bbox,
                         {consolidated[k].elements[i].bbox :
                             i \in 1..Len(consolidated[k].elements)})
            /\ (MemberPositions(k) = 1..Len(consolidated[k].elements)
                  => consolidated[k].bbox = UnionOf({s.bbox : s \in Members(k)}))

\* C19 witness: a box, a connector 10 px right of it and a box 29 px right
\* of the connector form one group, though the two boxes are 79 px apart;
\* the group's bbox spans the three
C19_ChainOfThree ==
    /\ pc = "consolidated"
    /\ text_regions = <<>>
    /\ Len(diagram_regions) = 3
    /\ {diagram_regions[i].bbox : i \in 1..3}
         = {<<0, 0, 100, 60>>, <<110, 20, 150, 30>>, <<179, 0, 279, 60>>}
    /\ ~NearBy(<<0, 0, 100, 60>>, <<179, 0, 279, 60>>, DiagramProximity)
    /\ Len(consolidated) = 1
    /\ consolidated[1].type = "DIAGRAM"
    /\ Len(consolidated[1].elements) = 3
    /\ consolidated[1].bbox = <<0, 0, 279, 60>>

\* ------------------------------------------------ the text attachment

\* the OCR lines in the elements of group k
AttachedTo(k) ==
    {consolidated[k].elements[i] :
        i \in (1..Len(consolidated[k].elements)) \ MemberPositions(k)}

\* the position of an OCR line in text_regions
LinePosition(t) == CHOOSE i \in 1..Len(text_regions) : text_regions[i] = t

\* the bbox of group k when the i-th line is looked at: the union of its
\* members and of the lines attached to it from among the first i - 1
BoxBefore(k, i) ==
    UnionOf({s.bbox : s \in Members(k)}
            \cup {t.bbox : t \in {u \in AttachedTo(k) : LinePosition(u) < i}})

\* the groups whose bbox, when the i-th line is looked at, intersects the
\* line or lies less than 10 px from it
GroupsNear(i) ==
    {k \in DiagramGroups : NearBy(text_regions[i].bbox, BoxBefore(k, i), TextProximity)}

\* the lines that went into the paragraphs, counted
RECURSIVE ParagraphLines(_)
ParagraphLines(rs) ==
    IF rs = <<>> THEN 0
    ELSE (IF Head(rs).type = "TEXT_PARAGRAPH" THEN Head(rs).n_lines ELSE 0)
         + ParagraphLines(Tail(rs))

\* C20: each OCR line, in input order, is attached to the first DIAGRAM
\* group whose bbox at that time (its members and the lines attached to it
\* so far) intersects the line or lies less than 10 px from it, and to no
\* other group; a line with no such group is in no group and goes to the
\* paragraphs; the attached lines of a group follow its members, in input
\* order
C20_AttachedToFirstNearGroup ==
    pc = "consolidated" =>
      /\ \A k \in DiagramGroups :
            /\ AttachedTo(k) \subseteq {text_regions[i] : i \in 1..Len(text_regions)}
            /\ \A i, j \in 1..Len(consolidated[k].elements) :
                  i < j /\ i \notin MemberPositions(k)
                    => /\ j \notin MemberPositions(k)
                       /\ LinePosition(consolidated[k].elements[i])
                            < LinePosition(consolidated[k].elements[j])
      /\ \A i \in 1..Len(text_regions) :
            LET holders == {k \in DiagramGroups : text_regions[i] \in AttachedTo(k)}
            IN  IF GroupsNear(i) = {} THEN holders = {}
                ELSE holders = {MinOver(GroupsNear(i))}
      /\ ParagraphLines(consolidated)
           = Cardinality({i \in 1..Len(text_regions) : GroupsNear(i) = {}})

\* C20 witness: the line 5 px off the corner of the box is attached first
\* and stretches the group's bbox, so that the line 7 px right of it (112 px
\* from the box itself) is attached too; with the two lines given the other
\* way round the second one is left to the paragraphs
C20_OrderDecides ==
    /\ pc = "consolidated"
    /\ Len(diagram_regions) = 1
    /\ diagram_regions[1].bbox = <<0, 0, 100, 60>>
    /\ Len(text_regions) = 2
    /\ text_regions[1].bbox = <<105, 65, 205, 85>>
    /\ text_regions[2].bbox = <<212, 40, 300, 60>>
    /\ ~NearBy(text_regions[2].bbox, diagram_regions[1].bbox, TextProximity)
    /\ Len(consolidated) = 1
    /\ Len(consolidated[1].elements) = 3
    /\ consolidated[1].bbox = <<0, 0, 300, 85>>
    /\ LET swapped == Consolidate(diagram_regions, <<text_regions[2], text_regions[1]>>)
       IN  /\ Len(swapped) = 2
           /\ Len(swapped[1].elements) = 2
           /\ swapped[2].type = "TEXT_PARAGRAPH"

\* ------------------------------------------------------ the paragraphs

\* bound of the lines given to the paragraph consolidation
MaxParagraphLines == 3

\* OCR lines: two stacked lines 5 px apart, a line beside the second one
\* (same top, 120 px to the right), a line on the first one's row starting
\* 40 px further right, a narrow line under the second one, a line under
\* the narrow one that does not overlap it but starts 40 px from its left
\* edge, and a line exactly 20 px under the second one
ParagraphPool ==
    { Line(<<"n","o","t","e","s">>, <<0, 600, 100, 620>>),
      Line(<<"m","o","r","e">>, <<0, 625, 100, 645>>),
      Line(<<"a","s","i","d","e">>, <<120, 625, 200, 645>>),
      Line(<<"l","e","f","t">>, <<40, 600, 90, 620>>),
      Line(<<"a">>, <<0, 650, 30, 670>>),
      Line(<<"b">>, <<40, 675, 100, 695>>),
      Line(<<"u","n","d","e","r">>, <<0, 665, 100, 685>>) }

\* consolidate() is given no detector region and some of these lines
InitParagraphs ==
    /\ pc = "consolidate"
    /\ diagram_regions = <<>>
    /\ text_regions \in DistinctSeqs(ParagraphPool, MaxParagraphLines)
    /\ consolidated = NotYet
    /\ DetectIdle /\ RefineIdle /\ SchemaIdle /\ StageIdle /\ RunIdle

SpecParagraphs == InitParagraphs /\ [][ConsolidateRegions]_vars

\* the positions in text_regions of the lines no group took
Unattached == {i \in 1..Len(text_regions) : GroupsNear(i) = {}}

\* the place of the i-th line among the unattached ones sorted by top y,
\* lines of one top kept in input order
RankY(i) ==
    1 + Cardinality({j \in Unattached :
                        \/ text_regions[j].bbox[2] < text_regions[i].bbox[2]
                        \/ /\ text_regions[j].bbox[2] = text_regions[i].bbox[2]
                           /\ j < i})

\* the unattached line at place r
LineAt(r) == text_regions[CHOOSE i \in Unattached : RankY(i) = r]

\* the line at place r joins the paragraph of the line before it
Joins(r) ==
    LET prev == LineAt(r - 1).bbox
        curr == LineAt(r).bbox
    IN  /\ curr[2] - prev[4] < YThreshold
        /\ \/ AxisGap(prev[1], prev[3], curr[1], curr[3]) < 0
           \/ Abs(curr[1] - prev[1]) < XThreshold

\* the places at which a paragraph starts, ascending
ParagraphStarts ==
    Ascending({r \in 1..Cardinality(Unattached) : r = 1 \/ ~Joins(r)})

\* the lines of the k-th paragraph
LinesOfParagraph(k) ==
    LET last == IF k = Len(ParagraphStarts) THEN Cardinality(Unattached)
                ELSE ParagraphStarts[k + 1] - 1
    IN  {LineAt(r) : r \in ParagraphStarts[k]..last}

\* the text of the lines of S joined by blanks, by top y and then left x
RECURSIVE ReadingText(_)
ReadingText(S) ==
    IF S = {} THEN <<>>
    ELSE LET first == CHOOSE l \in S : \A m \in S :
                          \/ l.bbox[2] < m.bbox[2]
                          \/ l.bbox[2] = m.bbox[2] /\ l.bbox[1] <= m.bbox[1]
         IN  IF S = {first} THEN first.text
             ELSE first.text \o <<" ">> \o ReadingText(S \ {first})

\* the k-th TEXT_PARAGRAPH of the output (the paragraphs follow the groups)
ParagraphOut(k) == consolidated[Cardinality(DiagramGroups) + k]

\* C21: the unattached lines, sorted by top y, are cut into the paragraphs
\* of the output: a line joins the paragraph of the line before it exactly
\* when its top is less than 20 px under that line's bottom and the two
\* overlap horizontally or their left edges are less than 50 px apart; each
\* line is in one paragraph, and a paragraph's text is its lines' text
\* joined in (y, x) order
C21_ParagraphsCutAtBreaks ==
    pc = "consolidated" =>
      /\ Len(consolidated) = Cardinality(DiagramGroups) + Len(ParagraphStarts)
      /\ \A k \in 1..Len(ParagraphStarts) :
            /\ ParagraphOut(k).type = "TEXT_PARAGRAPH"
            /\ ParagraphOut(k).n_lines = Cardinality(LinesOfParagraph(k))
            /\ ParagraphOut(k).text = ReadingText(LinesOfParagraph(k))
            /\ ParagraphOut(k).bbox = UnionOf({l.bbox : l \in LinesOfParagraph(k)})

\* C21 witness: "left" is given before "notes" on the same row and "more"
\* under them: one paragraph, read "notes left more"
C21_RowReadLeftToRight ==
    /\ pc = "consolidated"
    /\ Len(text_regions) = 3
    /\ text_regions[1].bbox = <<40, 600, 90, 620>>
    /\ text_regions[2].bbox = <<0, 600, 100, 620>>
    /\ text_regions[3].bbox = <<0, 625, 100, 645>>
    /\ Len(consolidated) = 1
    /\ consolidated[1].type = "TEXT_PARAGRAPH"
    /\ consolidated[1].text = <<"n","o","t","e","s"," ","l","e","f","t"," ","m","o","r","e">>

\* ------------------------------------------------ the nodes of a diagram

\* bounds of the page whose diagram nodes are identified
MaxNodeBoxes == 2

MaxNodeLines == 3

\* two boxes that overlap
NodeBoxPool ==
    { Region("diagram_container", "rectangle", <<0, 0, 100, 60>>),
      Region("diagram_container", "rectangle", <<20, 0, 200, 60>>) }

\* OCR lines: two lines inside both boxes, a line centred on the right
\* border of the first box, a wide line 4 px under the boxes, and a short
\* line in the middle of the wide one
NodeLinePool ==
    { Line(<<"D","a","t","a">>, <<10, 10, 60, 30>>),
      Line(<<"S","e","t">>, <<30, 32, 80, 52>>),
      Line(<<"e","d","g","e">>, <<90, 20, 110, 40>>),
      Line(<<"w","i","d","e">>, <<0, 64, 100, 104>>),
      Line(<<"i","n">>, <<40, 74, 60, 94>>) }

\* main is run on a page with these boxes and lines
InitNodes ==
    /\ pc = "consolidate"
    /\ diagram_regions \in DistinctSeqs(NodeBoxPool, MaxNodeBoxes)
    /\ text_regions \in DistinctSeqs(NodeLinePool, MaxNodeLines)
    /\ consolidated = NotYet
    /\ DetectIdle /\ RefineIdle /\ SchemaIdle /\ StageIdle /\ RunIdle

SpecNodes == InitNodes /\ [][NextProcess]_vars

\* the regions of the given types among the elements of the g-th group
ElementsOf(g, types) ==
    {consolidated[g].elements[i] :
        i \in {j \in 1..Len(consolidated[g].elements) :
                  consolidated[g].elements[j].type \in types}}

\* the centre of the bbox inner lies strictly inside the bbox outer
CentreWithin(inner, outer) ==
    /\ 2 * outer[1] < Centre2(inner)[1] /\ Centre2(inner)[1] < 2 * outer[3]
    /\ 2 * outer[2] < Centre2(inner)[2] /\ Centre2(inner)[2] < 2 * outer[4]

\* the nodes of one type in the g-th graph, by position
NodesOfType(g, type) ==
    {k \in 1..Len(graphs[g].graph.nodes) : graphs[g].graph.nodes[k].type = type}

\* C22: in every graph DiagramProcessor.process returns, each container
\* element has one container node, labelled with the text, in (y, x) order,
\* of the text elements whose centre is strictly inside it; each text
\* element whose centre is strictly inside no container has one text_blob
\* node, and the others have none; and there is no other node
C22_EveryTextPlaced ==
    pc = "refine" =>
      \A g \in 1..Len(graphs) :
        LET ns == graphs[g].graph.nodes
            boxes == ElementsOf(g, ContainerTypes)
            lines == ElementsOf(g, TextTypes)
            loose == {t \in lines : \A c \in boxes : ~CentreWithin(t.bbox, c.bbox)}
        IN  /\ Cardinality(NodesOfType(g, "container")) = Cardinality(boxes)
            /\ \A c \in boxes :
                  \E k \in NodesOfType(g, "container") :
                      /\ ns[k].bbox = c.bbox
                      /\ ns[k].label
                           = ReadingText({t \in lines : CentreWithin(t.bbox, c.bbox)})
            /\ Cardinality(NodesOfType(g, "text_blob")) = Cardinality(loose)
            /\ \A t \in loose :
                  \E k \in NodesOfType(g, "text_blob") :
                      ns[k].bbox = t.bbox /\ ns[k].label = t.text
            /\ NodesOfType(g, "container") \cup NodesOfType(g, "text_blob")
                 = 1..Len(ns)

\* C22 witness: the wide line under the box and the short line in its
\* middle are both elements of the group and inside no container, and the
\* graph has the box and one text_blob only
C22_TextInsideTextLeftOut ==
    /\ pc = "refine"
    /\ Len(graphs) = 1
    /\ Len(diagram_regions) = 1
    /\ Len(text_regions) = 2
    /\ text_regions[1].bbox = <<0, 64, 100, 104>>
    /\ text_regions[2].bbox = <<40, 74, 60, 94>>
    /\ Len(consolidated[1].elements) = 3
    /\ \A i \in 1..2 : ~CentreWithin(text_regions[i].bbox, diagram_regions[1].bbox)
    /\ Len(graphs[1].graph.nodes) = 2
    /\ graphs[1].graph.nodes[2].label = <<"w","i","d","e">>

\* ------------------------------------------------ the edges of a diagram

\* bound of the page whose connectors are matched to nodes
MaxEdgeElements == 4

\* two boxes side by side, a box under the space between them, a connector
\* whose centre is nearest to the lower box and as far from the one upper
\* box as from the other, and a connector whose centre is as far from the
\* one upper box as from the other and further from the lower box
ConnectorPool ==
    { Region("diagram_container", "rectangle", <<0, 0, 100, 60>>),
      Region("diagram_container", "rectangle", <<200, 0, 300, 60>>),
      Region("diagram_container", "rectangle", <<100, 80, 200, 140>>),
      Region("connector", "line", <<110, 25, 190, 35>>),
      Region("connector", "line", <<110, 0, 190, 10>>) }

\* main is run on a page with these regions and no text
InitEdges ==
    /\ pc = "consolidate"
    /\ diagram_regions \in DistinctSeqs(ConnectorPool, MaxEdgeElements)
    /\ text_regions = <<>>
    /\ consolidated = NotYet
    /\ DetectIdle /\ RefineIdle /\ SchemaIdle /\ StageIdle /\ RunIdle

SpecEdges == InitEdges /\ [][NextProcess]_vars

\* the connectors among the elements of the g-th group, in list order
ConnectorsOf(g) ==
    LET at == Ascending({j \in 1..Len(consolidated[g].elements) :
                            consolidated[g].elements[j].type = "connector"})
    IN  [k \in 1..Len(at) |-> consolidated[g].elements[at[k]]]

\* four times the square of the distance between the centres of two bboxes
CentreDistance(b1, b2) ==
    (Centre2(b1)[1] - Centre2(b2)[1]) * (Centre2(b1)[1] - Centre2(b2)[1])
    + (Centre2(b1)[2] - Centre2(b2)[2]) * (Centre2(b1)[2] - Centre2(b2)[2])

\* the place of the i-th node of ns by distance from the connector, nodes
\* equally far in list order
PlaceByDistance(ns, i, c_bbox) ==
    1 + Cardinality({j \in 1..Len(ns) :
          \/ CentreDistance(ns[j].bbox, c_bbox) < CentreDistance(ns[i].bbox, c_bbox)
          \/ /\ CentreDistance(ns[j].bbox, c_bbox) = CentreDistance(ns[i].bbox, c_bbox)
             /\ j < i})

\* the ids of the two nodes nearest to the connector
TwoNearest(ns, c_bbox) ==
    {ns[i].id : i \in {j \in 1..Len(ns) : PlaceByDistance(ns, j, c_bbox) <= 2}}

\* C23: a graph DiagramProcessor.process returns with fewer than two nodes
\* has no edge; any other has one edge per connector of its region, in
\* order, joining two different nodes: the two whose centres are nearest
\* to the connector's centre, the earlier in the node list when two are
\* equally far
C23_EdgePerConnectorToTwoNearest ==
    pc = "refine" =>
      \A g \in 1..Len(graphs) :
        LET ns == graphs[g].graph.nodes
            es == graphs[g].graph.edges
        IN  IF Len(ns) < 2 THEN es = <<>>
            ELSE /\ Len(es) = Len(ConnectorsOf(g))
                 /\ \A k \in 1..Len(es) :
                       /\ es[k].from # es[k].to
                       /\ {es[k].from, es[k].to} = TwoNearest(ns, ConnectorsOf(g)[k].bbox)

\* C23 witness: three boxes and the connector between the upper two, which
\* is nearest to the lower box and equally far from the upper two: its
\* edge joins the lower box and the upper box that comes first in the list
C23_TieGoesToEarlierNode ==
    /\ pc = "refine"
    /\ Len(graphs) = 1
    /\ Len(graphs[1].graph.nodes) = 3
    /\ graphs[1].graph.nodes[1].bbox = <<200, 0, 300, 60>>
    /\ graphs[1].graph.nodes[2].bbox = <<0, 0, 100, 60>>
    /\ graphs[1].graph.nodes[3].bbox = <<100, 80, 200, 140>>
    /\ ConnectorsOf(1) = <<Region("connector", "line", <<110, 25, 190, 35>>)>>
    /\ CentreDistance(<<200, 0, 300, 60>>, <<110, 25, 190, 35>>)
         = CentreDistance(<<0, 0, 100, 60>>, <<110, 25, 190, 35>>)
    /\ Len(graphs[1].graph.edges) = 1
    /\ {graphs[1].graph.edges[1].from, graphs[1].graph.edges[1].to}
         = {graphs[1].graph.nodes[1].id, graphs[1].graph.nodes[3].id}

\* ------------------------------------------------- the relation of an edge

\* bounds of the graph whose edges get their relation
MaxRelationNodes == 2

MaxRelationEdges == 1

\* boxes with the keyword labels: Learning Program left of Data on one
\* row, Model and Experience on a lower row, Model as far under Data as it
\* is left of it, Data straight above Machine Learning, and a box with no
\* keyword
RelationPool ==
    { Node(<<"D","a","t","a">>, "container", <<400, 0, 480, 40>>),
      Node(<<"L","e","a","r","n","i","n","g"," ","P","r","o","g","r","a","m">>, "container", <<200, 0, 320, 40>>),
      Node(<<"M","o","d","e","l">>, "container", <<200, 200, 280, 240>>),
      Node(<<"E","x","p","e","r","i","e","n","c","e">>, "container", <<20, 200, 100, 240>>),
      Node(<<"M","a","c","h","i","n","e"," ","L","e","a","r","n","i","n","g">>, "container", <<380, 400, 500, 440>>),
      Node(<<"N","o","t","e","s">>, "container", <<60, 0, 140, 40>>) }

\* refine() is given one graph over these boxes
InitRelation ==
    /\ pc = "refine"
    /\ \E ts \in DistinctSeqs(RelationPool, MaxRelationNodes) :
       \E es \in SeqsUpTo(InputEdges(Len(ts)), MaxRelationEdges) :
           graphs = <<GraphObj(WithIds(ts, 1), es)>>
    /\ merge_mode \in {"page_level", "proximity"}
    /\ final_text_regions = NotYet
    /\ refined_graphs = NotYet /\ refine_log = NotYet
    /\ DetectIdle /\ ConsolidateIdle /\ SchemaIdle /\ StageIdle /\ RunIdle

SpecRelation == InitRelation /\ [][Refine]_vars

\* the lowercased label of the node holds the word
Mentions(n, word) == Contains(Lower(n.label), word)

\* the relation of the first keyword pair matching source and target, or
\* "none"
KeywordRelation(src, tgt) ==
    IF Mentions(src, <<"d","a","t","a">>) /\ Mentions(tgt, <<"p","r","o","g","r","a","m">>) THEN "input_to"
    ELSE IF Mentions(src, <<"l","e","a","r","n","i","n","g">>) /\ Mentions(tgt, <<"m","o","d","e","l">>) THEN "produces"
    ELSE IF Mentions(src, <<"e","x","p","e","r","i","e","n","c","e">>) /\ Mentions(tgt, <<"m","o","d","e","l">>) THEN "improves"
    ELSE IF Mentions(src, <<"m","o","d","e","l">>) /\ Mentions(tgt, <<"m","a","c","h","i","n","e"," ","l","e","a","r","n","i","n","g">>) THEN "defined_as"
    ELSE "none"

\* twice the target's centre minus twice the source's centre
Delta2(src, tgt) ==
    <<Centre2(tgt.bbox)[1] - Centre2(src.bbox)[1],
      Centre2(tgt.bbox)[2] - Centre2(src.bbox)[2]>>

\* C24: every edge refine() keeps carries the relation of the keyword pair
\* matching its lowercased source and target labels when there is one,
\* whatever the geometry; otherwise flows_to if |dx| > |dy| and dx > 0,
\* flows_from if |dx| > |dy| and dx < 0, and leads_to in every other
\* case; no edge carries leads_from
C24_KeywordThenGeometry ==
    pc = "refined" /\ refined_graphs # <<>> =>
      \A g \in 1..Len(refined_graphs) :
        \A k \in 1..Len(refined_graphs[g].graph.edges) :
          LET e == refined_graphs[g].graph.edges[k]
              src == NodeById(refined_graphs[g].graph.nodes, e.from)
              tgt == NodeById(refined_graphs[g].graph.nodes, e.to)
              d == Delta2(src, tgt)
          IN  /\ e.relation # "leads_from"
              /\ IF KeywordRelation(src, tgt) # "none"
                 THEN e.relation = KeywordRelation(src, tgt)
                 ELSE IF Abs(d[1]) > Abs(d[2]) /\ d[1] > 0 THEN e.relation = "flows_to"
                 ELSE IF Abs(d[1]) > Abs(d[2]) /\ d[1] < 0 THEN e.relation = "flows_from"
                 ELSE e.relation = "leads_to"

\* C24 witness: the edge from Model up to Data, which is as far right of
\* Model as it is above it, matches no keyword pair and gets leads_to
C24_UpwardDiagonalLeadsTo ==
    /\ pc = "refined" /\ refined_graphs # <<>>
    /\ Len(refined_graphs[1].graph.edges) = 1
    /\ LET e == refined_graphs[1].graph.edges[1]
           src == NodeById(refined_graphs[1].graph.nodes, e.from)
           tgt == NodeById(refined_graphs[1].graph.nodes, e.to)
       IN  /\ src.label = <<"M","o","d","e","l">> /\ tgt.label = <<"D","a","t","a">>
           /\ KeywordRelation(src, tgt) = "none"
           /\ Delta2(src, tgt)[1] = 0 - Delta2(src, tgt)[2]
           /\ Delta2(src, tgt)[2] < 0
           /\ e.relation = "leads_to"

\* ------------------------------------- the nodes of the knowledge graph

\* bounds of the canonical graph whose nodes are typed and slugged
MaxCanonNodes == 3

MaxCanonEdges == 1

\* the nodes it may hold, in list order: a model subtype, an example, the
\* model, two labels with one slug, a label opening with a stop word, an
\* empty label, a label holding "Data Learning program" after a stop word,
\* the label that one is rewritten to, and a label of six words
CanonTemplates ==
    << Node(<<"M","a","t","h","e","m","a","t","i","c","a","l"," ","E","q","u","a","t","i","o","n">>, "container", <<0, 0, 200, 40>>),
       Node(<<"D","i","a","g","r","a","m">>, "container", <<0, 100, 200, 140>>),
       Node(<<"M","o","d","e","l">>, "container", <<0, 200, 200, 240>>),
       Node(<<"D","a","t","a","-","S","e","t">>, "container", <<0, 300, 200, 340>>),
       Node(<<"d","a","t","a"," ","s","e","t">>, "container", <<0, 400, 200, 440>>),
       Node(<<"t","h","e"," ","r","u","l","e","s">>, "container", <<0, 500, 200, 540>>),
       Node(<<>>, "container", <<0, 600, 200, 640>>),
       Node(<<"t","h","e"," ","D","a","t","a"," ","L","e","a","r","n","i","n","g"," ","p","r","o","g","r","a","m">>, "container", <<0, 700, 200, 740>>),
       Node(<<"L","e","a","r","n","i","n","g"," ","P","r","o","g","r","a","m">>, "container", <<0, 800, 200, 840>>),
       Node(<<"i","t"," ","l","e","a","r","n","s"," ","f","r","o","m"," ","d","a","t","a"," ","b","y"," ","i","t","s","e","l","f">>, "container", <<0, 900, 200, 940>>) >>

\* generate() is given a graph over some of these nodes, in list order, with
\* at most one edge between any two of its ids
InitCanon ==
    /\ pc = "generate"
    /\ \E S \in SUBSET (1..Len(CanonTemplates)) :
         /\ Cardinality(S) <= MaxCanonNodes
         /\ \E es \in SeqsUpTo(SchemaEdges(Cardinality(S)), MaxCanonEdges) :
              canonical_graph =
                  [nodes |-> WithIds(Pick(CanonTemplates, Ascending(S)), 1),
                   edges |-> es]
    /\ knowledge_output = NotYet
    /\ DetectIdle /\ ConsolidateIdle /\ RefineIdle /\ StageIdle /\ RunIdle

SpecCanon == InitCanon /\ [][GenerateFrom]_vars

\* the types of the entries of graph_knowledge.nodes with the node_id
TypesOfId(gk, id) ==
    {gk.nodes[i].type : i \in {j \in 1..Len(gk.nodes) : gk.nodes[j].node_id = id}}

\* the types of the siblings
SiblingTypes == {"model", "example"}

ContainerCandidate(c) ==
    (c.child_idx # -1 /\ c.area > ChildContainerArea) \/ c.area > ContainerArea

\* the contour gives no region
Discarded(c, img_area) ==
    \/ c.area < NoiseArea
    \/ /\ ContainerCandidate(c)
       /\ (2 * (c.w * c.h) > img_area \/ c.h > 10 * c.w)

\* the type the ordered heuristic gives a contour that is not discarded,
\* every contour that is no candidate taking the text branch
HeuristicType(c) ==
    IF ContainerCandidate(c)
    THEN IF c.w > 8 * c.h THEN "text_line" ELSE "diagram_container"
    ELSE IF c.w > 3 * c.h
         THEN IF ClassifyShape(c) \in LineOrArrowShapes THEN "connector"
              ELSE "text_line"
         ELSE "text"

\* the types of the contours that are not discarded, in order
RECURSIVE HeuristicTypes(_, _)
HeuristicTypes(cnts, img_area) ==
    IF cnts = <<>> THEN <<>>
    ELSE (IF Discarded(Head(cnts), img_area) THEN <<>>
          ELSE <<HeuristicType(Head(cnts))>>)
         \o HeuristicTypes(Tail(cnts), img_area)

\* C26: detect_regions returns one region per contour that is not
\* discarded, in order, typed by the ordered heuristic: a candidate is
\* text_line when wider than 8 heights and diagram_container otherwise;
\* every other contour is connector when wider than 3 heights with a line
\* or arrow shape, text_line when wider than 3 heights otherwise, and text
\* when not wider than 3 heights
C26_TypedByHeuristic ==
    pc = "detected" =>
      [k \in 1..Len(regions) |-> regions[k].type]
        = HeuristicTypes(contours, image_area)

\* C26 witness: a contour of area 3000 with no child is neither a
\* candidate nor below 3000, and its region is typed unknown
C26_AreaAtThresholdUnknown ==
    /\ pc = "detected"
    /\ Len(contours) = 1
    /\ contours[1].area = ContainerArea
    /\ contours[1].child_idx = -1
    /\ ~ContainerCandidate(contours[1])
    /\ Len(regions) = 1
    /\ regions[1].type = "unknown"
    /\ regions[1].shape = "unknown"

\* ---------------------------------------------- one pass of the merging

\* bound of the node list merged in one pass
MaxFixpointBlobs == 3

\* a word, a word 2 px right of it and 2 px lower, a word 80 px right of
\* the first and 1 px lower (10 px right of the second), a word 2 px right
\* of the first on its row, and a box
FixpointPool ==
    { Node(<<"M","a","c","h","i","n","e">>, "text_blob", <<0, 0, 60, 20>>),
      Node(<<"L","e","a","r","n","i","n","g">>, "text_blob", <<62, 2, 130, 22>>),
      Node(<<"M","o","d","e","l","s">>, "text_blob", <<140, 1, 200, 21>>),
      Node(<<"D","e","e","p">>, "text_blob", <<62, 0, 130, 20>>),
      Node(<<"D","a","t","a">>, "container", <<0, 100, 80, 140>>) }

\* _merge_adjacent_text_nodes is given some of these nodes, in any order
InitFixpoint ==
    /\ pc = "merge"
    /\ \E ts \in DistinctSeqs(FixpointPool, MaxFixpointBlobs) :
           input_nodes = WithIds(ts, 1)
    /\ nodes = NotYet /\ id_map = NotYet /\ prev_nodes = NotYet
    /\ DetectIdle /\ ConsolidateIdle /\ RefineIdle /\ SchemaIdle /\ RunIdle

SpecFixpoint == InitFixpoint /\ [][MergeText]_vars

\* n1 comes before n2 by top y and then left x
BeforeYX(n1, n2) ==
    \/ n1.bbox[2] < n2.bbox[2]
    \/ n1.bbox[2] = n2.bbox[2] /\ n1.bbox[1] < n2.bbox[1]

\* C27: after _merge_adjacent_text_nodes no two surviving nodes, the first
\* before the second in (y, x) order, satisfy _should_merge_text on their
\* final bboxes, and the merge run on its own output returns it unchanged
C27_OnePassFixpoint ==
    pc = "merged" =>
      /\ \A i, j \in 1..Len(nodes) :
            BeforeYX(nodes[i], nodes[j]) => ~ShouldMergeText(nodes[i], nodes[j])
      /\ MergeAdjacentTextNodes(nodes).nodes = nodes

\* C27 witness: "Machine", "Models" 80 px to its right and "Learning"
\* between them, the last in (y, x) order: "Learning" is merged into
\* "Machine" after "Models" was passed over, and the two survivors, now
\* 10 px apart, satisfy _should_merge_text
C27_PassedOverThenInReach ==
    /\ pc = "merged"
    /\ Len(input_nodes) = 3
    /\ Len(nodes) = 2
    /\ nodes[1].label = <<"M","a","c","h","i","n","e"," ","L","e","a","r","n","i","n","g">>
    /\ nodes[1].bbox = <<0, 0, 130, 22>>
    /\ nodes[2].label = <<"M","o","d","e","l","s">>
    /\ BeforeYX(nodes[1], nodes[2])
    /\ ShouldMergeText(nodes[1], nodes[2])
    /\ Len(MergeAdjacentTextNodes(nodes).nodes) = 1

\* the labels of the canonical graph's nodes differ pairwise, case folded
DistinctFoldedLabels ==
    \A i, j \in 1..Len(canonical_graph.nodes) :
        Lower(canonical_graph.nodes[i].label) = Lower(canonical_graph.nodes[j].label)
          => i = j

\* C28: when the labels of the canonical graph's nodes differ pairwise,
\* case folded, no two entries of graph_knowledge.nodes have one node_id
C28_NodeIdsUnique ==
    KnowledgeGraphMade /\ DOMAIN canonical_graph # {} /\ DistinctFoldedLabels =>
      LET gk == knowledge_output.graph_knowledge
      IN  \A i, j \in 1..Len(gk.nodes) :
             gk.nodes[i].node_id = gk.nodes[j].node_id => i = j

\* C28 witness: "Data-Set" and "data set" differ case folded and both get
\* the slug data_set: graph_knowledge.nodes has two entries with that id
C28_TwoLabelsOneSlug ==
    /\ pc = "generated"
    /\ DOMAIN canonical_graph # {}
    /\ DistinctFoldedLabels
    /\ Len(canonical_graph.nodes) = 2
    /\ canonical_graph.nodes[1].label = <<"D","a","t","a","-","S","e","t">>
    /\ canonical_graph.nodes[2].label = <<"d","a","t","a"," ","s","e","t">>
    /\ LET gk == knowledge_output.graph_knowledge
       IN  /\ Len(gk.nodes) = 2
           /\ gk.nodes[1].node_id = <<"d","a","t","a","_","s","e","t">>
           /\ gk.nodes[2].node_id = <<"d","a","t","a","_","s","e","t">>
           /\ gk.nodes[1].label # gk.nodes[2].label

\* ------------------------------------------- the order of the regions

\* bound of the regions given to the diagram consolidation
MaxOrderRegions == 3

\* structural regions with x1 <= x2 and y1 <= y2: a box, a zero-width
\* stroke inside it, a zero-height stroke 20 px right of it, a box 20 px
\* right of it, and a box far away
OrderPool ==
    { Region("diagram_container", "rectangle", <<0, 0, 100, 60>>),
      Region("connector", "line", <<50, 10, 50, 50>>),
      Region("connector", "line", <<120, 30, 160, 30>>),
      Region("diagram_container", "rectangle", <<120, 70, 220, 130>>),
      Region("diagram_container", "rectangle", <<400, 400, 500, 460>>) }

\* consolidate() is given some of these regions, in any order, and no line
InitOrder ==
    /\ pc = "consolidate"
    /\ diagram_regions \in DistinctSeqs(OrderPool, MaxOrderRegions)
    /\ text_regions = <<>>
    /\ consolidated = NotYet
    /\ DetectIdle /\ RefineIdle /\ SchemaIdle /\ StageIdle /\ RunIdle

SpecOrder == InitOrder /\ [][ConsolidateRegions]_vars

\* the partition a list of groups makes of its structural regions
PartitionOf(groups) ==
    { {groups[k].elements[i] :
          i \in {j \in 1..Len(groups[k].elements) :
                    groups[k].elements[j].type \notin TextTypes}} :
      k \in {g \in 1..Len(groups) : groups[g].type = "DIAGRAM"} }

\* the lists holding the regions of rs once each
PermutationsOf(rs) ==
    {q \in DistinctSeqs({rs[i] : i \in 1..Len(rs)}, Len(rs)) : Len(q) = Len(rs)}

\* the closeness test gives one answer for both orders of its arguments
SymmetricOn(S, t) ==
    \A a, b \in S : RegionsIntersectOrClose(a, b, t) = RegionsIntersectOrClose(b, a, t)

\* C29: the closeness test is symmetric on the regions given, zero-width
\* and zero-height ones included, and the partition of the structural
\* regions into DIAGRAM groups is the same for every order of the list
C29_GroupingIndependentOfOrder ==
    pc = "consolidated" =>
        /\ SymmetricOn(StructuralRegions, DiagramProximity)
        /\ \A q \in PermutationsOf(diagram_regions) :
              PartitionOf(Consolidate(q, <<>>)) = PartitionOf(consolidated)

\* a box followed by a zero-width stroke inside it: the test says far for
\* (box, stroke) and close for (stroke, box); the two are left in two
\* groups, and the reversed list puts them in one
C29_StrokeAfterBoxLeftApart ==
    /\ pc = "consolidated"
    /\ Len(diagram_regions) = 2
    /\ diagram_regions[1].bbox = <<0, 0, 100, 60>>
    /\ diagram_regions[2].bbox = <<50, 10, 50, 50>>
    /\ ~RegionsIntersectOrClose(diagram_regions[1], diagram_regions[2], DiagramProximity)
    /\ RegionsIntersectOrClose(diagram_regions[2], diagram_regions[1], DiagramProximity)
    /\ Cardinality(PartitionOf(consolidated)) = 2
    /\ Cardinality(PartitionOf(Consolidate(<<diagram_regions[2], diagram_regions[1]>>, <<>>))) = 1

\* where every region has a positive width and height the grouping does
\* not depend on the order
OrderHoldsOnProperBoxes ==
    (pc = "consolidated"
     /\ \A r \in StructuralRegions : r.bbox[1] < r.bbox[3] /\ r.bbox[2] < r.bbox[4]) =>
        /\ SymmetricOn(StructuralRegions, DiagramProximity)
        /\ \A q \in PermutationsOf(diagram_regions) :
              PartitionOf(Consolidate(q, <<>>)) = PartitionOf(consolidated)

\* -------------------------------------------- the nodes that are added

\* the input node has a non-empty label of at most 5 words, and neither
\* the label nor its first word is a stop word
KeptAsGiven(n) ==
    LET label == Strip(n.label)
    IN  /\ label # <<>>
        /\ Len(Split(label)) <= 5
        /\ Lower(label) \notin StopWords
        /\ Lower(Split(label)[1]) \notin StopWords

\* the label the node loop works on: the stripped label, or "Learning
\* Program" when it contains "Data Learning program"
CorrectedLabel(n) ==
    IF Contains(Strip(n.label), <<"D","a","t","a"," ","L","e","a","r","n","i","n","g"," ","p","r","o","g","r","a","m">>) THEN <<"L","e","a","r","n","i","n","g"," ","P","r","o","g","r","a","m">>
    ELSE Strip(n.label)

\* the same tests made on the label the node loop works on
KeptAsCorrected(n) ==
    LET label == CorrectedLabel(n)
    IN  /\ label # <<>>
        /\ Len(Split(label)) <= 5
        /\ Lower(label) \notin StopWords
        /\ Lower(Split(label)[1]) \notin StopWords

\* the entry c of graph_knowledge.nodes is made from the input node n
DerivedFrom(c, n) ==
    /\ c.label = CorrectedLabel(n)
    /\ c.node_id = MakeSlug(c.label)
    /\ c.type = InferType(c.label)

\* the positions in graph_knowledge.nodes of the entries made from an
\* input node
DerivedPositions ==
    LET gk == knowledge_output.graph_knowledge
    IN  {k \in 1..Len(gk.nodes) :
            \E i \in 1..Len(canonical_graph.nodes) :
                DerivedFrom(gk.nodes[k], canonical_graph.nodes[i])}

DerivedIds == {knowledge_output.graph_knowledge.nodes[k].node_id : k \in DerivedPositions}

\* a model subtype id is among the derived nodes and "model" is not
ModelDue ==
    /\ \E s \in 1..Len(ModelSubtypes) : ModelSubtypes[s] \in DerivedIds
    /\ ModelId \notin DerivedIds

\* C30: every entry of graph_knowledge.nodes is made from an input node
\* with a non-empty label of at most 5 words whose label and first word
\* are no stop words, except one entry "model", which is there exactly
\* when a model subtype id is among the derived ids and "model" is not
C30_OnlyModelSynthesized ==
    KnowledgeGraphMade /\ DOMAIN canonical_graph # {} =>
      LET gk == knowledge_output.graph_knowledge
          added == (1..Len(gk.nodes)) \ DerivedPositions
      IN  /\ \A k \in DerivedPositions :
                \E i \in 1..Len(canonical_graph.nodes) :
                    /\ KeptAsGiven(canonical_graph.nodes[i])
                    /\ DerivedFrom(gk.nodes[k], canonical_graph.nodes[i])
          /\ \A k \in added : gk.nodes[k].node_id = ModelId
          /\ Cardinality(added) = IF ModelDue THEN 1 ELSE 0

\* the one input node "the Data Learning program" starts with a stop word
\* and graph_knowledge.nodes holds the node learning_program made from it
C30_StopWordLabelKept ==
    /\ pc = "generated"
    /\ DOMAIN canonical_graph # {}
    /\ Len(canonical_graph.nodes) = 1
    /\ canonical_graph.nodes[1].label = <<"t","h","e"," ","D","a","t","a"," ","L","e","a","r","n","i","n","g"," ","p","r","o","g","r","a","m">>
    /\ ~KeptAsGiven(canonical_graph.nodes[1])
    /\ LET gk == knowledge_output.graph_knowledge
       IN  /\ Len(gk.nodes) = 1
           /\ gk.nodes[1].node_id = LearningProgramId
           /\ gk.nodes[1].label = <<"L","e","a","r","n","i","n","g"," ","P","r","o","g","r","a","m">>

\* with the tests made on the corrected label every entry but "model" is
\* made from a kept input node, and "model" is added exactly when due
OnlyModelSynthesizedAfterCorrection ==
    KnowledgeGraphMade /\ DOMAIN canonical_graph # {} =>
      LET gk == knowledge_output.graph_knowledge
          added == (1..Len(gk.nodes)) \ DerivedPositions
      IN  /\ \A k \in DerivedPositions :
                \E i \in 1..Len(canonical_graph.nodes) :
                    /\ KeptAsCorrected(canonical_graph.nodes[i])
                    /\ DerivedFrom(gk.nodes[k], canonical_graph.nodes[i])
          /\ \A k \in added : gk.nodes[k].node_id = ModelId
          /\ Cardinality(added) = IF ModelDue THEN 1 ELSE 0
          /\ Cardinality(DerivedPositions) =
                Cardinality({i \in 1..Len(canonical_graph.nodes) :
                                KeptAsCorrected(canonical_graph.nodes[i])})

\* a subtype without a model node: "model" is added after it
ModelAddedForSubtype ==
    /\ pc = "generated"
    /\ DOMAIN canonical_graph # {}
    /\ ModelDue
    /\ LET gk == knowledge_output.graph_knowledge
       IN  gk.nodes[Len(gk.nodes)].node_id = ModelId /\ Len(gk.nodes) \notin DerivedPositions

=============================================================================
